---- MODULE Spec2Model ----
(***************************************************************************)
(* Call-lifecycle state machine of the AMI -> Bitrix24 daemon.             *)
(*   incoming_call_handler.py  IncomingCallHandler (event handlers)        *)
(*   bitrix24_integration.py   Bitrix24 (CRM gateway, binding engine)      *)
(*   call_info.py              CallInfo (per-call record)                  *)
(*   call_end_handler.py       CallEndHandler.finalize_call                *)
(*   audio_file_manager.py     AudioFileManager.convert_wav_to_mp3         *)
(*   main.py                   run_daemon (callback registration)          *)
(***************************************************************************)
EXTENDS Integers, Sequences, FiniteSets, TLC

---------------------------------------------------------------------------
\* Bounds of the model.

\* Last clock tick of a run.
MaxTime == 2
\* Clock ticks per wall-clock second: time.time() is a float, int(time.time())
\* drops the fraction.
Res == 2
\* Events the AMI reader may hold while one callback runs.
MaxPending == 2
\* CRM requests and file operations of one callback that may fail.
MaxFaults == 1
\* Events the PBX sends in one run.
MaxEvents == 5
\* Events the PBX sends in one run of a call that rings at several agents.
MaxAgentEvents == 6
\* Runs of the binding engine on one call.
MaxRuns == 2
\* Candidates a contact lookup returns.
MaxContacts == 3
\* Leads a lead list request returns.
MaxLeads == 2
\* QueueCallerJoin events of one call.
MaxJoins == 2
\* Events of the specification with events of calls that are not live.
MaxStrayEvents == 4
\* The events of a call whose dial attempts are followed.
MaxDialEvents == 4
\* The events received over one PBX link.
MaxLinkEvents == 4
\* The events of two calls that ring at the same agents.
MaxCacheEvents == 6
\* The routing events (TimeRule, TimeGroup, IVRchoose) of a call.
MaxTimelineEvents == 4
\* The events of a call with a second channel.
MaxLinkedEvents == 5

---------------------------------------------------------------------------
\* Optional values: Python None is the empty tuple, a value v is <<v>>.

None == <<>>
Some(v) == <<v>>
IsNone(x) == x = None
Val(x) == x[1]

\* An empty Python dict.
EmptyDict == <<>>

\* int(): truncation toward zero of n/d.
IntTrunc(n, d) == IF n >= 0 THEN n \div d ELSE -((-n) \div d)

\* dict.update for one level of keys: keys of new replace keys of cur.
DictMerge(cur, new) ==
    [k \in (DOMAIN cur) \cup (DOMAIN new) |->
        IF k \in DOMAIN new THEN new[k] ELSE cur[k]]

---------------------------------------------------------------------------
\* Configuration (config.ini as read by ConfigManager).

\* [Allowed_Extens] extens
allowed_extens == {"0008"}
\* The sections about queues are independent of each other in the file.
\* Queue 701 has an entry in each, and the id its label has in
\* [Bitrix24_lead_Target_IDs] is the first of its targets; the first target
\* of queue 702 is not the id of its label; queue 703 has neither a label
\* among the target ids nor deal categories.
\* [QueueNames]
queue_names ==
    [q \in {"701", "702", "703"} |->
        CASE q = "701" -> "Sales" [] q = "702" -> "Support" [] OTHER -> "Billing"]
\* [Bitrix24] call_admin_id
call_admin_id == "u_admin"
\* [Bitrix24_lead_Target_IDs] <id> = <label>
lead_target_ids == [i \in {"t1", "t3"} |-> IF i = "t1" THEN "Sales" ELSE "Support"]
\* [QueueB24LeadTarget] <queue> = <csv of target ids>
queue_b24_lead_target ==
    [q \in {"701", "702", "703"} |->
        CASE q = "701" -> <<"t1", "t2">> [] q = "702" -> <<"t4", "t3">> [] OTHER -> <<"t5">>]
\* [QueueB24DealCategories] <queue> = <csv of category ids>
queue_b24_deal_categories ==
    [q \in {"701", "702"} |-> IF q = "701" THEN <<"k1">> ELSE <<"k2">>]
\* [Bitrix24_Binding_Call] <kind> = ALL | FILTERED | NONE, in file order.
\* The section is read from the file on every run of the binding engine;
\* binding_call is what the file holds.
VARIABLE binding_call
binding_kinds == <<"lead", "deal">>
binding_settings == binding_call
\* The section of the installation the call lifecycle is followed in.
binding_call_ini == [k \in {"lead", "deal"} |->
                        IF k = "lead" THEN "FILTERED" ELSE "ALL"]
\* [Bitrix24EntityTypes] kinds searched at enrichment, in file order
entity_types == <<"lead", "deal">>

\* bindings_entities_mapping of _call_binding
bindings_entities_mapping ==
    [k \in {"lead", "deal", "contact", "company", "invoice", "quote", "requisite"} |->
        CASE k = "lead" -> 1
          [] k = "deal" -> 2
          [] k = "contact" -> 3
          [] k = "company" -> 4
          [] k = "invoice" -> 31
          [] k = "quote" -> 7
          [] k = "requisite" -> 8]

---------------------------------------------------------------------------
\* CallInfo (call_info.py).  Fields that only feed log lines (call_name,
\* channel, cause_txt, call_statuses, linked_id, recording_*) are left out.
\* used_agents and available_agents are dicts
\* {agent: {timestamp: {field: value}}}.

\* CallInfo.__init__
CallInfo(uniqueid) ==
    [uniqueid |-> uniqueid,
     call_type |-> None,
     caller_id_num |-> None,
     caller_b24_contact_id |-> None,
     caller_b24_contact_fullname |-> None,
     caller_b24_entities |-> EmptyDict,
     b24_new_lead_id |-> None,
     exten |-> None,
     start_time |-> None,
     answer_start_time |-> None,
     time_group |-> None,
     time_rule |-> None,
     interactive_menu |-> <<>>,
     queue |-> None,
     queue_name |-> None,
     used_agents |-> EmptyDict,
     available_agents |-> EmptyDict,
     accepted_by_agent |-> None,
     internal_b24ids |-> <<>>,
     b24_call_id |-> EmptyDict,
     end_time |-> None,
     answer_end_time |-> None,
     duration |-> None,
     answer_duration |-> None,
     crm_activity_id |-> None,
     call_record_wav |-> None,
     call_record_mp3 |-> None,
     cause |-> None]

\* Attributes that hold a dict from construction on: update_call_info merges.
DictAttrs == {"caller_b24_entities", "b24_call_id"}

\* The list attributes.
ListAttrs == {"interactive_menu"}

\* The dict attributes whose values are dicts of dicts.
AgentLogAttrs == {"used_agents", "available_agents"}

\* CallInfo._recursive_update on dicts nested depth levels deep: a key that
\* both have, with dicts on both sides, is merged recursively, any other
\* key of new_dict is assigned.
RECURSIVE recursive_update(_, _, _)
recursive_update(current_dict, new_dict, depth) ==
    IF depth <= 1 THEN DictMerge(current_dict, new_dict)
    ELSE [k \in (DOMAIN current_dict) \cup (DOMAIN new_dict) |->
            IF k \in DOMAIN new_dict /\ k \in DOMAIN current_dict
            THEN recursive_update(current_dict[k], new_dict[k], depth - 1)
            ELSE IF k \in DOMAIN new_dict THEN new_dict[k]
            ELSE current_dict[k]]

\* CallInfo.update_call_info: a dict attribute is merged key by key
\* (recursively where its values are dicts), a list attribute gets the value
\* appended, every other attribute modelled
\* here is overwritten (both the "None and int" branch and the final else
\* branch are a setattr).
update_call_info(ci, key, value) ==
    IF key \in DictAttrs
    THEN [ci EXCEPT ![key] = DictMerge(@, value)]
    ELSE IF key \in AgentLogAttrs
    THEN [ci EXCEPT ![key] = recursive_update(@, value, 3)]
    ELSE IF key \in ListAttrs
    THEN [ci EXCEPT ![key] = Append(@, value)]
    ELSE [ci EXCEPT ![key] = value]

\* internal_b24ids is an insertion-ordered dict {internal_number: {'USER_ID': id}},
\* kept as the sequence of its items.
HasNumber(ids, num) == \E i \in 1..Len(ids) : ids[i].num = num
NumberIndex(ids, num) == CHOOSE i \in 1..Len(ids) : ids[i].num = num
UserIdOf(ids, num) == ids[NumberIndex(ids, num)].USER_ID

---------------------------------------------------------------------------
\* Outcome of running a piece of handler code: the call record as mutated so
\* far, the CRM requests sent so far, and whether an exception left the code.

Step(ci, log, exc) == [ci |-> ci, log |-> log, exc |-> exc]

\* Bitrix24._make_request, by what the CRM side does:
\*   "ok"    200 with a non-empty result         -> the result (truthy)
\*   "none"  HTTP error status or a non-JSON body -> None
\*   "raise" requests raised before `response` was bound: the except block
\*           reads the unbound `response`, so UnboundLocalError leaves
\*           _make_request.
MakeRequestOutcomes == {"ok", "none", "raise"}

---------------------------------------------------------------------------
\* CRM gateway: closing call windows, finishing the call, attaching the
\* recording (bitrix24_integration.py).

HasCallId(ci) == "CALL_ID" \in DOMAIN ci.b24_call_id

HideRequest(user_id, call_id, res) ==
    [ep |-> "telephony.externalcall.hide", USER_ID |-> user_id,
     CALL_ID |-> call_id, res |-> res]

\* The cached agents whose window b24call_window_close hides.
CloseTargets(ci, accepted_user_num) ==
    SelectSeq(ci.internal_b24ids,
              LAMBDA it : IsNone(accepted_user_num) \/ it.num # Val(accepted_user_num))

\* The loop of b24call_window_close over its targets.
HideAll(ci, targets, raiseAt) ==
    IF Len(targets) = 0 THEN Step(ci, <<>>, FALSE)
    ELSE IF ~HasCallId(ci) THEN Step(ci, <<>>, TRUE)
    ELSE Step(ci,
              [i \in 1..(IF raiseAt \in 1..Len(targets) THEN raiseAt ELSE Len(targets)) |->
                  HideRequest(targets[i].USER_ID, ci.b24_call_id["CALL_ID"],
                              IF i = raiseAt THEN "raise" ELSE "ok")],
              raiseAt \in 1..Len(targets))

\* Bitrix24.b24call_window_close: one hide request per cached agent other
\* than the accepting one (every cached agent when accepted_user_num is
\* None).  Building the request reads b24_call_id['CALL_ID'] (KeyError when
\* no registration stored one); raiseAt is the position of the hide request
\* on which the transport fails (0: none does).
b24call_window_close(ci, accepted_user_num, raiseAt) ==
    HideAll(ci, CloseTargets(ci, accepted_user_num), raiseAt)

\* Bitrix24._attach_call_record: no request without an existing mp3 file;
\* every failure of the two-step upload is caught and gives False.
\* Returns [attached, log].
attach_call_record(call_id, mp3_file, outcome) ==
    IF IsNone(mp3_file)
    THEN [attached |-> FALSE, log |-> <<>>]
    ELSE [attached |-> outcome = "ok",
          log |-> << [ep |-> "telephony.externalCall.attachRecord",
                      CALL_ID |-> call_id, FILENAME |-> Val(mp3_file),
                      res |-> outcome] >>]

\* Bitrix24._update_bindined_call: crm.activity.update with the given fields.
\* Returns [log, exc].
update_bindined_call(crm_activity_id, outcome) ==
    [log |-> << [ep |-> "crm.activity.update", id |-> crm_activity_id,
                 COMPLETED |-> "Y", res |-> outcome] >>,
     exc |-> outcome = "raise"]

---------------------------------------------------------------------------
\* Binding policy engine (Bitrix24._call_binding).
\* An entity summary is [ID, uf]: uf is the value the item holds under the
\* configured target field of its kind (<kind>_uf_list_id), None when the
\* item has no such key.  bindings is what crm.activity.binding.list
\* returned: None, or Some(set of [entityTypeId, entityId]).

\* Variant: the comparison never finds a binding.
check_entity_in_listMissing(entity_list, entityTypeId, entityId) ==
    \E entity \in entity_list :
        entity.entityTypeId = entityTypeId /\ entity.entityId = entityId /\ FALSE

check_entity_in_list(entity_list, entityTypeId, entityId) ==
    \E entity \in entity_list :
        entity.entityTypeId = entityTypeId /\ entity.entityId = entityId

BindingWriteEps == {"crm.activity.binding.add", "crm.activity.binding.delete"}

WriteCount(log) == Len(SelectSeq(log, LAMBDA r : r.ep \in BindingWriteEps))

\* Variant: the new lead is synthesized without a target value of the
\* queue.
NewLeadItemUntargeted(ci) ==
    [ID |-> Val(ci.b24_new_lead_id), uf |-> Some("")]

\* The synthesized summary of the lead created on QueueJoin.
NewLeadItem(ci) ==
    [ID |-> Val(ci.b24_new_lead_id),
     uf |-> Some(queue_b24_lead_target[Val(ci.queue)][1])]

QueueConfigured(ci, table) == ~IsNone(ci.queue) /\ Val(ci.queue) \in DOMAIN table

\* Variant: under ALL an item is added only while the activity has no
\* binding at all.
ItemDecisionEmptyOnly(ci, entity_type, setting, item, bindings) ==
    CASE setting = "ALL" ->
           IF IsNone(bindings) THEN "raise"
           ELSE IF Cardinality(Val(bindings)) > 0 THEN "continue"
           ELSE "crm.activity.binding.add"
      [] setting = "FILTERED" ->
           IF IsNone(item.uf) \/ IsNone(bindings) THEN "raise"
           ELSE IF \E i \in 1..Len(IF entity_type = "lead"
                                   THEN queue_b24_lead_target[Val(ci.queue)]
                                   ELSE queue_b24_deal_categories[Val(ci.queue)]) :
                      (IF entity_type = "lead"
                       THEN queue_b24_lead_target[Val(ci.queue)]
                       ELSE queue_b24_deal_categories[Val(ci.queue)])[i] = Val(item.uf)
           THEN (IF check_entity_in_list(Val(bindings),
                                         bindings_entities_mapping[entity_type], item.ID)
                 THEN "continue" ELSE "crm.activity.binding.add")
           ELSE "crm.activity.binding.delete"
      [] setting = "NONE" -> "crm.activity.binding.delete"
      [] OTHER -> ""

\* Variant: FILTERED is treated as ALL, the target value is not looked at.
ItemDecisionUnfiltered(ci, entity_type, setting, item, bindings) ==
    CASE setting \in {"ALL", "FILTERED"} ->
           IF IsNone(bindings) THEN "raise"
           ELSE IF check_entity_in_list(Val(bindings),
                                        bindings_entities_mapping[entity_type], item.ID)
           THEN "continue"
           ELSE "crm.activity.binding.add"
      [] setting = "NONE" -> "crm.activity.binding.delete"
      [] OTHER -> ""

\* What the loop body decides for one item: "raise" (KeyError / TypeError),
\* "continue", or the endpoint to post to ("" when the setting is none of
\* the three modes).
ItemDecision(ci, entity_type, setting, item, bindings) ==
    LET entity_type_id == bindings_entities_mapping[entity_type]
        bound == check_entity_in_list(Val(bindings), entity_type_id, item.ID)
    IN CASE setting = "ALL" ->
              IF IsNone(bindings) THEN "raise"
              ELSE IF Cardinality(Val(bindings)) > 0 /\ bound THEN "continue"
              ELSE "crm.activity.binding.add"
         [] setting = "FILTERED" ->
              IF entity_type \notin {"lead", "deal"} THEN "raise"
              ELSE IF entity_type = "lead" /\ ~QueueConfigured(ci, queue_b24_lead_target)
                   THEN "raise"
              ELSE IF entity_type = "deal" /\ ~QueueConfigured(ci, queue_b24_deal_categories)
                   THEN "raise"
              ELSE IF IsNone(item.uf) THEN "raise"
              ELSE LET uf_list_ids ==
                         IF entity_type = "lead"
                         THEN queue_b24_lead_target[Val(ci.queue)]
                         ELSE queue_b24_deal_categories[Val(ci.queue)]
                       matches == \E i \in 1..Len(uf_list_ids) :
                                     uf_list_ids[i] = Val(item.uf)
                   IN IF matches /\ IsNone(bindings) THEN "raise"
                      ELSE IF matches /\ bound THEN "continue"
                      ELSE IF matches THEN "crm.activity.binding.add"
                      ELSE "crm.activity.binding.delete"
         [] setting = "NONE" -> "crm.activity.binding.delete"
         [] OTHER -> ""

\* The binding request posted for one item.
BindingRequest(ci, entity_type, item, endpoint, res) ==
    [ep |-> endpoint, activityId |-> ci.crm_activity_id,
     entityTypeId |-> bindings_entities_mapping[entity_type],
     entityId |-> item.ID, res |-> res]

\* The inner loop over the entities of one kind, from item i on.  raiseAt is
\* the position, among the binding writes of this run, of the request on
\* which the transport fails (0: none).
RECURSIVE BindItems(_, _, _, _, _, _, _)
BindItem(ci, entity_type, entities, i, bindings, raiseAt, log, d, fails) ==
    CASE d = "raise" -> Step(ci, log, TRUE)
      [] d \in {"continue", ""} ->
           BindItems(ci, entity_type, entities, i + 1, bindings, raiseAt, log)
      [] OTHER ->
           IF fails
           THEN Step(ci, Append(log, BindingRequest(ci, entity_type, entities[i], d, "raise")),
                     TRUE)
           ELSE BindItems(ci, entity_type, entities, i + 1, bindings, raiseAt,
                          Append(log, BindingRequest(ci, entity_type, entities[i], d, "ok")))

BindItems(ci, entity_type, entities, i, bindings, raiseAt, log) ==
    IF i > Len(entities) THEN Step(ci, log, FALSE)
    ELSE BindItem(ci, entity_type, entities, i, bindings, raiseAt, log,
                  ItemDecision(ci, entity_type, binding_settings[entity_type],
                               entities[i], bindings),
                  WriteCount(log) + 1 = raiseAt)

\* The outer loop over binding_settings.items(), from kind k on.  A newly
\* created lead is inserted at the head of the stored lead list (the list
\* object of caller_b24_entities is mutated) or forms a list of its own.
RECURSIVE BindKinds(_, _, _, _, _)
BindKind(ci, k, bindings, raiseAt, r) ==
    IF r.exc THEN r ELSE BindKinds(r.ci, k + 1, bindings, raiseAt, r.log)

\* The entities of a kind the loop works on.
KindEntities(ci, entity_type, known, newLead, listed) ==
    IF known /\ newLead /\ ~listed
    THEN <<NewLeadItem(ci)>> \o ci.caller_b24_entities[entity_type]
    ELSE IF known THEN ci.caller_b24_entities[entity_type]
    ELSE <<NewLeadItem(ci)>>

BindKindOf(ci, k, bindings, raiseAt, log, entity_type, known, newLead, listed) ==
    IF ~known /\ ~newLead
    THEN BindKinds(ci, k + 1, bindings, raiseAt, log)
    ELSE IF newLead /\ ~listed /\ ~QueueConfigured(ci, queue_b24_lead_target)
    THEN Step(ci, log, TRUE)
    ELSE BindKind(ci, k, bindings, raiseAt,
                  BindItems(IF known
                            THEN [ci EXCEPT !.caller_b24_entities[entity_type] =
                                     KindEntities(ci, entity_type, known, newLead, listed)]
                            ELSE ci,
                            entity_type,
                            KindEntities(ci, entity_type, known, newLead, listed),
                            1, bindings, raiseAt, log))

\* The new lead is among the stored entities of the kind.
NewLeadListed(ci, entity_type) ==
    /\ entity_type \in DOMAIN ci.caller_b24_entities
    /\ \E j \in 1..Len(ci.caller_b24_entities[entity_type]) :
          ci.caller_b24_entities[entity_type][j].ID = Val(ci.b24_new_lead_id)

BindKinds(ci, k, bindings, raiseAt, log) ==
    IF k > Len(binding_kinds) THEN Step(ci, log, FALSE)
    ELSE BindKindOf(ci, k, bindings, raiseAt, log, binding_kinds[k],
                    binding_kinds[k] \in DOMAIN ci.caller_b24_entities,
                    binding_kinds[k] = "lead" /\ ~IsNone(ci.b24_new_lead_id),
                    NewLeadListed(ci, binding_kinds[k]))

\* The list request with its response: result is the set of bindings the
\* CRM reports, None when _make_request gave no result.
BindingListRequest(ci, list, bound) ==
    [ep |-> "crm.activity.binding.list", activityId |-> ci.crm_activity_id, res |-> list,
     result |-> IF list = "ok" THEN Some(bound) ELSE None]

\* Bitrix24._call_binding.  list is the outcome of crm.activity.binding.list
\* (sent only with an activity id), bound the bindings the CRM reports.
call_binding(ci, list, bound, raiseAt) ==
    IF ~IsNone(ci.crm_activity_id) /\ list = "raise"
    THEN Step(ci, <<BindingListRequest(ci, list, bound)>>, TRUE)
    ELSE BindKinds(ci, 1,
                   IF IsNone(ci.crm_activity_id) THEN Some({})
                   ELSE IF list = "none" THEN None
                   ELSE Some(bound),
                   raiseAt,
                   IF IsNone(ci.crm_activity_id) THEN <<>>
                   ELSE <<BindingListRequest(ci, list, bound)>>)

---------------------------------------------------------------------------
\* Finalization on the CRM side (Bitrix24.cancel_b24call).
\* o is what the CRM does during this run:
\*   o.hide     position of the hide request whose transport fails (0: none)
\*   o.finish   outcome of telephony.externalcall.finish
\*   o.activity the CRM_ACTIVITY_ID a successful finish returns
\*   o.list     outcome of crm.activity.binding.list, o.bound its result
\*   o.bindw    position of the binding write whose transport fails (0: none)
\*   o.attach   outcome of the two-step recording upload
\*   o.update   outcome of crm.activity.update

\* The finish request with its response: result is the CRM_ACTIVITY_ID of
\* the response, None when _make_request gave no result.
FinishRequest(user_id, call_id, duration, res, activity) ==
    [ep |-> "telephony.externalcall.finish", USER_ID |-> user_id,
     CALL_ID |-> call_id, DURATION |-> duration, res |-> res,
     result |-> IF res = "ok" THEN Some(activity) ELSE None]

\* The DURATION field of the finish request.
FinishDuration(ci) == ci.answer_duration

\* cancel_b24call completing the activity before it attaches the recording.
AfterAttachUpdateFirst(bind, att, log2, o) ==
    IF ~att.attached THEN Step(bind.ci, log2 \o att.log, FALSE)
    ELSE Step(bind.ci,
              log2 \o update_bindined_call(bind.ci.crm_activity_id, o.update).log \o att.log,
              FALSE)

\* Lines 654-662: after the attach attempt, the activity is completed when
\* the recording was attached (an exception of the update is caught).
AfterAttach(bind, att, log2, o) ==
    IF ~att.attached THEN Step(bind.ci, log2 \o att.log, FALSE)
    ELSE Step(bind.ci,
              log2 \o att.log \o update_bindined_call(bind.ci.crm_activity_id, o.update).log,
              FALSE)

\* Lines 651-653: after _call_binding, whose exception ends the try block.
AfterBinding(bind, log1, o) ==
    IF bind.exc THEN Step(bind.ci, log1 \o bind.log, FALSE)
    ELSE AfterAttach(bind,
                     attach_call_record(bind.ci.b24_call_id["CALL_ID"],
                                        bind.ci.call_record_mp3, o.attach),
                     log1 \o bind.log, o)

\* cancel_b24call storing an activity id whatever the finish request gave.
CancelGuardedAlwaysStores(ci, user_id, o, log0) ==
    AfterBinding(call_binding(update_call_info(ci, "crm_activity_id", Some(o.activity)),
                              o.list, o.bound, o.bindw),
                 Append(log0, FinishRequest(user_id, ci.b24_call_id["CALL_ID"],
                                            ci.answer_duration, o.finish, o.activity)),
                 o)

\* Lines 637-667: the part of cancel_b24call inside its try block.  Every
\* exception raised here is caught and logged, and cancel_b24call returns.
CancelGuarded(ci, user_id, o, log0) ==
    IF o.finish = "raise"
    THEN Step(ci, Append(log0, FinishRequest(user_id, ci.b24_call_id["CALL_ID"],
                                             FinishDuration(ci), o.finish, o.activity)),
              FALSE)
    ELSE AfterBinding(call_binding(IF o.finish = "ok"
                                   THEN update_call_info(ci, "crm_activity_id",
                                                         Some(o.activity))
                                   ELSE ci,
                                   o.list, o.bound, o.bindw),
                      Append(log0, FinishRequest(user_id, ci.b24_call_id["CALL_ID"],
                                                 FinishDuration(ci), o.finish, o.activity)),
                      o)

\* Lines 626-667: after the windows were closed.
AfterClose(ci, user_id, o, close) ==
    IF close.exc THEN close
    ELSE IF ~HasCallId(ci) THEN Step(ci, close.log, TRUE)
    ELSE CancelGuarded(ci, user_id, o, close.log)

\* Bitrix24.cancel_b24call.  Lines 615-632 run outside the try block: the
\* lookup of the accepting agent in internal_b24ids, b24call_window_close
\* and the read of b24_call_id['CALL_ID'] raise to the caller.
cancel_b24call(ci, o) ==
    IF ~IsNone(ci.accepted_by_agent)
       /\ ~HasNumber(ci.internal_b24ids, Val(ci.accepted_by_agent))
    THEN Step(ci, <<>>, TRUE)
    ELSE AfterClose(ci,
                    IF ~IsNone(ci.accepted_by_agent)
                    THEN UserIdOf(ci.internal_b24ids, Val(ci.accepted_by_agent))
                    ELSE call_admin_id,
                    o, b24call_window_close(ci, None, o.hide))

---------------------------------------------------------------------------
\* Audio post-processor (AudioFileManager.convert_wav_to_mp3).  A path is
\* [dirs, stem, ext]: the os.sep-separated parts before the file name, and
\* the file name split at its extension.  The result is None when the path
\* is None (os.path.exists(None) raises inside the try), the file is missing,
\* the path has fewer than four parts (IndexError) or the encode fails;
\* converts says whether the file exists and encodes.
mp3_dir == "records"

convert_wav_to_mp3(wav_path, converts) ==
    IF IsNone(wav_path) \/ ~converts \/ Len(Val(wav_path).dirs) < 3 THEN None
    ELSE LET parts == Val(wav_path).dirs
             n == Len(parts)
         IN Some([dirs |-> <<mp3_dir, parts[n - 2], parts[n - 1], parts[n]>>,
                  stem |-> Val(wav_path).stem, ext |-> "mp3"])

\* CallEndHandler.finalize_call: logs the record and returns True
\* (_log_call_end reads final_info.uniqueid only).
finalize_call(ci) == TRUE

---------------------------------------------------------------------------
\* Opening call windows (Bitrix24.b24call_window_open, called with one
\* internal number).  o.user is the outcome of user.get for the number
\* (every failure is caught in _get_user_id_by_internal_number and gives
\* None), o.user_id the id found, o.show the outcome of the show request.
\* The cache entry is written before the request is built, so it stays when
\* b24_call_id['CALL_ID'] raises KeyError or the transport fails.

ShowRequest(user_id, call_id, res) ==
    [ep |-> "telephony.externalcall.show", USER_ID |-> user_id,
     CALL_ID |-> call_id, res |-> res]

UserGetRequest(internal_number, res) ==
    [ep |-> "user.get", UF_PHONE_INNER |-> internal_number, res |-> res]

\* Lines 551-566: the show request for a known user id.
ShowWindow(ci, lookup, user_id, o) ==
    IF ~HasCallId(ci) THEN Step(ci, lookup, TRUE)
    ELSE Step(ci,
              Append(lookup, ShowRequest(user_id, ci.b24_call_id["CALL_ID"], o.show)),
              o.show = "raise")

\* Variant: the user is looked up on every call, the cache is written only.
b24call_window_openUncached(ci, internal_number, o) ==
    IF o.user # "ok"
    THEN Step(ci, <<UserGetRequest(internal_number, o.user)>>, FALSE)
    ELSE ShowWindow(IF HasNumber(ci.internal_b24ids, internal_number) THEN ci
                    ELSE [ci EXCEPT !.internal_b24ids =
                             Append(@, [num |-> internal_number, USER_ID |-> o.user_id])],
                    <<UserGetRequest(internal_number, o.user)>>, o.user_id, o)

b24call_window_open(ci, internal_number, o) ==
    IF HasNumber(ci.internal_b24ids, internal_number)
    THEN ShowWindow(ci, <<>>, UserIdOf(ci.internal_b24ids, internal_number), o)
    ELSE IF o.user # "ok"
    THEN Step(ci, <<UserGetRequest(internal_number, o.user)>>, FALSE)
    ELSE ShowWindow([ci EXCEPT !.internal_b24ids =
                        Append(@, [num |-> internal_number, USER_ID |-> o.user_id])],
                    <<UserGetRequest(internal_number, o.user)>>, o.user_id, o)

---------------------------------------------------------------------------
\* Queue registration (Bitrix24.b24call_registration and its helpers).
\* A lead title is the sequence of its " - "-separated parts.

call_type_mapping ==
    [t \in {"outbound", "inbound", "inbound_with_forwarding", "callback"} |->
        CASE t = "outbound" -> 1
          [] t = "inbound" -> 2
          [] t = "inbound_with_forwarding" -> 3
          [] t = "callback" -> 3]

call_name_mapping ==
    [t \in {"outbound", "inbound", "inbound_with_forwarding", "callback"} |->
        CASE t = "outbound" -> "Outbound call"
          [] t = "inbound" -> "Incoming call"
          [] t = "inbound_with_forwarding" -> "Inbound call with forwarding"
          [] t = "callback" -> "Callback"]

\* Bitrix24._find_id_by_value_in_list: the id whose label is value_to_find.
find_id_by_value_in_list(value_to_find, this_list) ==
    IF \E id \in DOMAIN this_list : this_list[id] = value_to_find
    THEN Some(CHOOSE id \in DOMAIN this_list : this_list[id] = value_to_find)
    ELSE None

\* Bitrix24._check_caller_b24_entities for a single value: entity.get(field)
\* == value, where both may be None.
check_caller_b24_entities_value(caller_b24_entities, entity_key, value) ==
    /\ entity_key \in DOMAIN caller_b24_entities
    /\ \E i \in 1..Len(caller_b24_entities[entity_key]) :
          caller_b24_entities[entity_key][i].uf = value

\* Bitrix24._check_caller_b24_entities for a list of values.
check_caller_b24_entities_list(caller_b24_entities, entity_key, values) ==
    /\ entity_key \in DOMAIN caller_b24_entities
    /\ \E i \in 1..Len(caller_b24_entities[entity_key]) :
          \E j \in 1..Len(values) :
             caller_b24_entities[entity_key][i].uf = Some(values[j])

\* Bitrix24._change_lead_title: reads the lead's title, and, when the caller
\* had no known entities, prepends the queue name and writes the target
\* field.  No exception leaves it.  Returns the requests sent.
change_lead_title(lead_id, ci, list_field_id, crm_title, get, update) ==
    LET old_title == IF get = "ok" THEN crm_title ELSE <<>>
        getReq == [ep |-> "crm.lead.get", id |-> lead_id, res |-> get]
        updReq == [ep |-> "crm.lead.update", id |-> lead_id,
                   TITLE |-> <<Val(ci.queue_name)>> \o old_title,
                   target |-> list_field_id, res |-> update]
    IN IF ci.caller_b24_entities = EmptyDict THEN <<getReq, updReq>> ELSE <<getReq>>

\* o for a QueueCallerJoin:
\*   o.register outcome of telephony.externalcall.register, o.call_id the
\*   CALL_ID it returns, o.created the id of the lead the CRM created itself
\*   (None: none), o.add outcome of crm.lead.add, o.new_lead the id it
\*   returns, o.get / o.update outcomes of crm.lead.get / crm.lead.update.
RegisterRequest(ci, res) ==
    [ep |-> "telephony.externalcall.register", USER_ID |-> call_admin_id,
     PHONE_NUMBER |-> ci.caller_id_num, TYPE |-> call_type_mapping[Val(ci.call_type)],
     LINE_NUMBER |-> ci.exten, res |-> res]

\* The dict stored under b24_call_id after a successful registration.
RegisteredCall(o) ==
    [k \in {"USER_ID", "CALL_ID", "CRM_CREATED_LEAD", "CRM_CREATED_ENTITIES"} |->
        CASE k = "USER_ID" -> call_admin_id
          [] k = "CALL_ID" -> o.call_id
          [] k = "CRM_CREATED_LEAD" -> o.created
          [] k = "CRM_CREATED_ENTITIES" ->
               IF IsNone(o.created) THEN <<>>
               ELSE <<[ENTITY_TYPE |-> "LEAD", ENTITY_ID |-> Val(o.created)]>>]

\* The dict stored after a failed registration.
RegistrationError == [k \in {"ERROR"} |-> "True"]

\* Lines 381-428: no lead was created by the CRM itself.
RegisterOwnLead(ci, o, list_field_id, log) ==
    LET call_type_name == call_name_mapping[Val(ci.call_type)]
        title == <<Val(ci.queue_name), Val(ci.caller_b24_contact_fullname), call_type_name>>
        addReq == [ep |-> "crm.lead.add", TITLE |-> title, target |-> list_field_id,
                   CONTACT_ID |-> IF Val(ci.caller_b24_contact_fullname) # <<Val(ci.caller_id_num)>>
                                  THEN ci.caller_b24_contact_id ELSE None,
                   res |-> o.add]
        leadMatch == check_caller_b24_entities_value(ci.caller_b24_entities, "lead", list_field_id)
    IN IF leadMatch THEN Step(ci, log, FALSE)
       ELSE IF Val(ci.queue) \notin DOMAIN queue_b24_deal_categories THEN Step(ci, log, TRUE)
       ELSE IF check_caller_b24_entities_list(ci.caller_b24_entities, "deal",
                                              queue_b24_deal_categories[Val(ci.queue)])
       THEN Step(ci, log, FALSE)
       ELSE IF o.add # "ok" THEN Step(ci, Append(log, addReq), FALSE)
       ELSE Step(update_call_info(ci, "b24_new_lead_id", Some(o.new_lead)),
                 Append(log, addReq)
                   \o change_lead_title(o.new_lead, ci, list_field_id, title, o.get, o.update),
                 FALSE)

\* Line 437: the registration is stored when nothing raised before.
StoreRegistered(own, o) ==
    IF own.exc THEN own
    ELSE Step(update_call_info(own.ci, "b24_call_id", RegisteredCall(o)), own.log, FALSE)

\* A registration that stores the CALL_ID although the request failed.
b24call_registrationStoresFailed(ci, o) ==
    IF IsNone(ci.call_type) \/ Val(ci.call_type) \notin DOMAIN call_type_mapping
    THEN Step(ci, <<>>, FALSE)
    ELSE Step(update_call_info(ci, "b24_call_id", RegisteredCall(o)),
              <<RegisterRequest(ci, o.register)>>, o.register = "raise")

\* Bitrix24.b24call_registration.  An exception raised before the last
\* statement leaves b24_call_id as it was.
b24call_registration(ci, o) ==
    IF IsNone(ci.call_type) \/ Val(ci.call_type) \notin DOMAIN call_type_mapping
    THEN Step(ci, <<>>, FALSE)
    ELSE CASE o.register = "raise" -> Step(ci, <<RegisterRequest(ci, o.register)>>, TRUE)
           [] o.register = "none" ->
                Step(update_call_info(ci, "b24_call_id", RegistrationError),
                     <<RegisterRequest(ci, o.register)>>, FALSE)
           [] ~IsNone(o.created) ->
                Step(update_call_info(ci, "b24_call_id", RegisteredCall(o)),
                     <<RegisterRequest(ci, o.register)>>
                       \o change_lead_title(Val(o.created), ci,
                                            find_id_by_value_in_list(Val(ci.queue_name),
                                                                     lead_target_ids),
                                            <<"auto">>, o.get, o.update),
                     FALSE)
           [] OTHER ->
                StoreRegistered(RegisterOwnLead(ci, o,
                                                find_id_by_value_in_list(Val(ci.queue_name),
                                                                         lead_target_ids),
                                                <<RegisterRequest(ci, o.register)>>),
                                o)

---------------------------------------------------------------------------
\* Enrichment (Bitrix24.find_contact_by_phone, get_entities_info) and the
\* caller-name formatting of IncomingCallHandler.

\* Number of populated name attributes of a contact.
PopulatedCount(contact) ==
    (IF contact.NAME # "" THEN 1 ELSE 0)
    + (IF contact.LAST_NAME # "" THEN 1 ELSE 0)
    + (IF contact.SECOND_NAME # "" THEN 1 ELSE 0)

\* Variant: a later candidate with the same count replaces the best one.
BetterOrEqual(contact, best) == PopulatedCount(contact) >= PopulatedCount(best)

\* max() replaces the candidate it holds only by one with a greater key.
Better(contact, best) == PopulatedCount(contact) > PopulatedCount(best)

\* max(contacts, key=populated count) from item i on, best the candidate
\* held so far.
RECURSIVE MaxContact(_, _, _)
MaxContact(contacts, i, best) ==
    IF i > Len(contacts) THEN best
    ELSE MaxContact(contacts, i + 1,
                    IF Better(contacts[i], best) THEN contacts[i] ELSE best)

\* Bitrix24.find_contact_by_phone: None for an empty or failed lookup, else
\* max(contacts, key=populated count).  An unpopulated field (null or empty
\* in the response, both false to contact.get) is "".
find_contact_by_phone(contacts) ==
    IF Len(contacts) = 0 THEN None
    ELSE Some(MaxContact(contacts, 2, contacts[1]))

\* Variant: junk leads are not removed.
removing_leadsConverted == {"CONVERTED"}

removing_leads == {"CONVERTED", "JUNK"}

\* Bitrix24.get_entities_info: one list request per configured kind, deals
\* skipped without a contact id; leads with a removed status are filtered
\* out; a kind is stored only with a non-empty list.  found[kind] is the
\* list the CRM returns for the kind (empty for a failed request, whose
\* exception is caught per kind).
RECURSIVE EntitiesInfo(_, _, _, _)
EntitiesInfo(k, has_contact, found, acc) ==
    IF k > Len(entity_types) THEN acc
    ELSE LET entity_type == entity_types[k]
             raw == found[entity_type]
             entities == IF entity_type = "lead"
                         THEN SelectSeq(raw, LAMBDA en : en.STATUS_ID \notin removing_leads)
                         ELSE raw
         IN IF (entity_type = "deal" /\ ~has_contact) \/ Len(entities) = 0
            THEN EntitiesInfo(k + 1, has_contact, found, acc)
            ELSE EntitiesInfo(k + 1, has_contact, found,
                              DictMerge(acc, [x \in {entity_type} |-> entities]))

get_entities_info(has_contact, found) == EntitiesInfo(1, has_contact, found, EmptyDict)

\* The list requests get_entities_info sends.
EntitiesRequests(has_contact) ==
    SelectSeq([k \in 1..Len(entity_types) |-> [ep |-> "crm.list", kind |-> entity_types[k]]],
              LAMBDA r : r.kind # "deal" \/ has_contact)

\* IncomingCallHandler.format_contact_fullname: "NAME SECOND_NAME LAST_NAME"
\* stripped, as the sequence of its parts without leading and trailing
\* empty parts.
RECURSIVE StripParts(_)
StripParts(parts) ==
    IF Len(parts) = 0 THEN parts
    ELSE IF Head(parts) = "" THEN StripParts(Tail(parts))
    ELSE IF parts[Len(parts)] = "" THEN StripParts(SubSeq(parts, 1, Len(parts) - 1))
    ELSE parts

format_contact_fullname(contact_info) ==
    StripParts(<<contact_info.NAME, contact_info.SECOND_NAME, contact_info.LAST_NAME>>)

\* IncomingCallHandler.format_caller_id_name: the name followed by
\* " (<kind> - <n>, ...)" for the kinds of entities_info, in dict order.
format_caller_id_name(contact_fullname, entities_info) ==
    [name |-> contact_fullname,
     kinds |-> SelectSeq([k \in 1..Len(entity_types) |->
                            [kind |-> entity_types[k],
                             n |-> IF entity_types[k] \in DOMAIN entities_info
                                   THEN Len(entities_info[entity_types[k]]) ELSE 0]],
                         LAMBDA c : c.n > 0)]

\* A caller id name that is a bare phone number.
PlainCallerId(caller_id_num) == [name |-> <<caller_id_num>>, kinds |-> <<>>]

\* Lines 126-134: the fields of the Newchannel event and the start time.
NewChannelStored(ci, e, t) ==
    update_call_info(
      update_call_info(
        update_call_info(
          update_call_info(
            update_call_info(ci, "call_type", Some("inbound")),
            "caller_id_num", Some(e.CallerIDNum)),
          "exten", Some(e.Exten)),
        "uniqueid", e.Uniqueid),
      "start_time", Some(t))

\* Lines 160-199: the caller's name is set on the channel and the CRM
\* entities are stored.
CallerNamed(ci, e, contact_info, caller_name, entities_info) ==
    Step(update_call_info(
           IF entities_info # EmptyDict
           THEN update_call_info(
                  update_call_info(ci, "caller_b24_contact_id",
                                   IF ~IsNone(contact_info)
                                   THEN Some(Val(contact_info).ID) ELSE None),
                  "caller_b24_entities", entities_info)
           ELSE update_call_info(ci, "caller_b24_contact_id",
                                 IF ~IsNone(contact_info)
                                 THEN Some(Val(contact_info).ID) ELSE None),
           "caller_b24_contact_fullname", Some(caller_name)),
         <<[ep |-> "crm.contact.list", PHONE |-> e.CallerIDNum]>>
           \o EntitiesRequests(~IsNone(contact_info))
           \o <<[ep |-> "Setvar", Channel |-> e.Channel,
                 Value |-> IF entities_info # EmptyDict
                           THEN format_caller_id_name(caller_name, entities_info)
                           ELSE PlainCallerId(e.CallerIDNum)]>>,
         FALSE)

\* Lines 137-158: the contact and the entities of the caller's number.
CallerLookup(ci, e, contact_info, o) ==
    CallerNamed(ci, e, contact_info,
                IF ~IsNone(contact_info) THEN format_contact_fullname(Val(contact_info))
                ELSE <<e.CallerIDNum>>,
                get_entities_info(~IsNone(contact_info), o.found))

\* IncomingCallHandler.handle_new_channel at clock tick t.  o.contacts is the
\* result of crm.contact.list, o.found the results of the entity lists.  No
\* exception leaves the handler.
handle_new_channel(ci, e, t, o) ==
    CallerLookup(NewChannelStored(ci, e, t), e, find_contact_by_phone(o.contacts), o)

---------------------------------------------------------------------------
\* Event handlers of IncomingCallHandler.  Each takes the CallInfo the event
\* was routed to, the event, the clock tick t at which it runs and the CRM's
\* behaviour o, and gives a Step; exc is TRUE when an exception leaves the
\* handler (handle_event catches and logs it).

\* int(time.time()) at clock tick t.
IntTime(t) == t \div Res

\* re.search(r'Local/(\d+)@from-queue/n', Interface): an Interface is
\* [tech, number, context]; the agent number is found only in the form
\* Local/<digits>@from-queue/n.
AgentNumber(interface) ==
    IF interface.tech = "Local" /\ interface.context = "from-queue/n"
    THEN Some(interface.number)
    ELSE None

\* handle_queue_event: a missing queue number returns, an unconfigured one
\* raises KeyError inside the try; every exception is caught here.
handle_queue_event(ci, e, o) ==
    IF IsNone(e.Queue) \/ Val(e.Queue) \notin DOMAIN queue_names
    THEN Step(ci, <<>>, FALSE)
    ELSE [b24call_registration(
             update_call_info(
               update_call_info(ci, "queue", e.Queue),
               "queue_name", Some(queue_names[Val(e.Queue)])),
             o) EXCEPT !.exc = FALSE]

\* handle_dial_begin_event: the branch for a leg of its own (Uniqueid equal
\* to Linkedid, with DestExten) records the dialed extension; the other
\* branch opens the call window of the destination agent.  Every exception
\* is caught here.
\* Lines 335-344, 355-364: the entry {agent: {current_time: agent_info}}.
DialBeginEntry(e, agent, t) ==
    [a \in {agent} |->
        [ts \in {IntTime(t)} |->
            [AgentNumber |-> Some(agent), DateTime |-> IntTime(t),
             DestCallerIDNum |-> e.DestCallerIDNum, Uniqueid |-> e.Uniqueid,
             Linkedid |-> e.Linkedid, DestExten |-> e.DestExten]]]

\* Lines 350-365: the entry of the agent is recorded when
\* b24call_window_open returned.
DialRecorded(open, e, t) ==
    IF open.exc THEN Step(open.ci, open.log, FALSE)
    ELSE Step(update_call_info(open.ci, "available_agents",
                               DialBeginEntry(e, Val(e.DestCallerIDNum), t)),
              open.log, FALSE)

handle_dial_begin_event(ci, e, t, o) ==
    IF e.Uniqueid = e.Linkedid /\ ~IsNone(e.DestExten)
    THEN Step(update_call_info(ci, "used_agents", DialBeginEntry(e, Val(e.DestExten), t)),
              <<>>, FALSE)
    ELSE IF ~IsNone(e.DestCallerIDNum)
    THEN DialRecorded(b24call_window_open(ci, Val(e.DestCallerIDNum), o), e, t)
    ELSE Step(ci, <<>>, FALSE)

\* A dict key: None is a key like any other.
DictKey(x) == IF IsNone(x) THEN "None" ELSE Val(x)

\* Lines 394-403: the entry {agent: {current_time: dial_info}}.
DialEndEntry(e, t) ==
    [a \in {DictKey(e.DestCallerIDNum)} |->
        [ts \in {IntTime(t)} |->
            [AgentNumber |-> e.DestCallerIDNum, DateTime |-> IntTime(t),
             DestCallerIDNum |-> e.DestCallerIDNum, STATUS |-> e.DialStatus]]]

\* handle_dial_end_event: the dial status is recorded for every destination
\* but the called extension itself.  No request is sent.
handle_dial_end_event(ci, e, t) ==
    IF e.DestCallerIDNum # ci.exten
    THEN Step(update_call_info(ci, "available_agents", DialEndEntry(e, t)), <<>>, FALSE)
    ELSE Step(ci, <<>>, FALSE)

\* Lines 246-251: the agent and the answer time are stored.
Accepted(ci, agent, t, close) ==
    IF close.exc THEN close
    ELSE Step(update_call_info(
                update_call_info(ci, "accepted_by_agent", agent),
                "answer_start_time", Some(IntTime(t))),
              close.log, FALSE)

\* handle_agent_connect: b24call_window_close runs outside any try block of
\* the handler; after it accepted_by_agent and answer_start_time are set.
handle_agent_connect(ci, e, t, o) ==
    IF e.Uniqueid # ci.uniqueid THEN Step(ci, <<>>, FALSE)
    ELSE Accepted(ci, AgentNumber(e.Interface), t,
                  b24call_window_close(ci, AgentNumber(e.Interface), o.hide))

\* handle_time_rule_event, handle_time_group_event, handle_ivr_choose_event:
\* the header's value goes to update_call_info; no try block.
handle_time_rule_event(ci, e) ==
    Step(update_call_info(ci, "time_rule", e.TimeRule), <<>>, FALSE)

handle_time_group_event(ci, e) ==
    Step(update_call_info(ci, "time_group", e.TimeGroup), <<>>, FALSE)

handle_ivr_choose_event(ci, e) ==
    Step(update_call_info(ci, "interactive_menu", e.IVRchoose), <<>>, FALSE)

\* handle_varset_event
handle_varset_event(ci, e) ==
    IF e.Variable = "MIXMONITOR_FILENAME"
    THEN Step(update_call_info(ci, "call_record_wav", e.Value), <<>>, FALSE)
    ELSE Step(ci, <<>>, FALSE)

\* The duration computed from the whole second in which the call started.
DurationFloor(ci, t) ==
    IF IsNone(ci.start_time) THEN 0
    ELSE IntTime(t) - IntTime(Val(ci.start_time))

\* The duration of the whole call as handle_hangup_event computes it:
\* int(current_time - start_time) with current_time = int(time.time()) and
\* start_time the float stored on Newchannel, 0 without a start time.
Duration(ci, t) ==
    IF IsNone(ci.start_time) THEN 0
    ELSE IntTrunc(IntTime(t) * Res - Val(ci.start_time), Res)

\* The duration of the answered part, 0 when the call was not accepted.
AnswerDuration(ci, t) ==
    IF ~IsNone(ci.accepted_by_agent) /\ ~IsNone(ci.answer_start_time)
    THEN IntTime(t) - Val(ci.answer_start_time)
    ELSE 0

\* Lines 532-534: answer_end_time is stamped for an accepted call.
Answered(ci, t) ==
    IF ~IsNone(ci.accepted_by_agent) /\ ~IsNone(ci.answer_start_time)
    THEN update_call_info(ci, "answer_end_time", Some(IntTime(t)))
    ELSE ci

\* Lines 542-547: the recording is converted and the mp3 path stored.
Converted(ci, o) ==
    IF IsNone(convert_wav_to_mp3(ci.call_record_wav, o.converts)) THEN ci
    ELSE update_call_info(ci, "call_record_mp3",
                          convert_wav_to_mp3(ci.call_record_wav, o.converts))

\* Lines 518-547 of handle_hangup_event: the stamps and the conversion.
HangupStamps(ci, t, o) ==
    Converted(update_call_info(
                Answered(update_call_info(
                           update_call_info(ci, "end_time", Some(IntTime(t))),
                           "duration", Some(Duration(ci, t))),
                         t),
                "answer_duration", Some(AnswerDuration(ci, t))),
              o)

\* Lines 551-556: the cause is stored when cancel_b24call returned.
AfterCancel(cancel, e) ==
    IF cancel.exc THEN cancel
    ELSE Step(update_call_info(cancel.ci, "cause", Some(e.Cause)), cancel.log, FALSE)

\* handle_hangup_event up to the disposal: exc is TRUE when cancel_b24call
\* raised, in which case the handler's except block logs and the lines that
\* finalize and remove the call are skipped.
handle_hangup_eventAnyLeg(ci, e, t, o) ==
    AfterCancel(cancel_b24call(HangupStamps(ci, t, o), o), e)

handle_hangup_event(ci, e, t, o) ==
    IF e.Uniqueid # ci.uniqueid THEN Step(ci, <<>>, FALSE)
    ELSE AfterCancel(cancel_b24call(HangupStamps(ci, t, o), o), e)

---------------------------------------------------------------------------
\* State.

VARIABLES
    call_infos,   \* IncomingCallHandler.call_infos: uniqueid -> CallInfo
    final_info,   \* CallEndHandler.final_info: the record last finalized
    now,          \* wall clock, in ticks
    pending,      \* events read from the AMI socket, not yet dispatched
    cur,          \* the event whose callback is running (None: idle)
    arrived,      \* number of events read from the AMI socket so far
    last,         \* the event the last finished callback handled, and how
    sent,         \* requests the last finished callback sent (CRM and AMI)
    probe         \* what the CRM holds, where a specification follows it

vars == <<call_infos, final_info, now, pending, cur, arrived, last, sent,
          binding_call, probe>>

\* [EventHandling] <EventName> = true
event_handling == {"Newchannel", "TimeRule", "TimeGroup", "IVRchoose",
                   "QueueCallerJoin", "VarSet", "AgentConnect",
                   "DialBegin", "DialEnd", "Hangup"}

\* Removal of a key from a dict.
DictDel(d, key) == [k \in (DOMAIN d) \ {key} |-> d[k]]

\* What one callback did: the new call map and final_info, the requests
\* sent, whether the event was routed to a CallInfo, and whether an
\* exception reached handle_event's except block.
Outcome(infos, fin, log, routed, exc) ==
    [infos |-> infos, final |-> fin, log |-> log, routed |-> routed, exc |-> exc]

\* The handler handle_event selects for an event routed to call_info.
RoutedStep(ci, e, t, o) ==
    CASE e.name = "TimeRule" -> handle_time_rule_event(ci, e)
      [] e.name = "TimeGroup" -> handle_time_group_event(ci, e)
      [] e.name = "IVRchoose" -> handle_ivr_choose_event(ci, e)
      [] e.name = "QueueCallerJoin" -> handle_queue_event(ci, e, o)
      [] e.name = "VarSet" -> handle_varset_event(ci, e)
      [] e.name = "AgentConnect" -> handle_agent_connect(ci, e, t, o)
      [] e.name = "DialBegin" -> handle_dial_begin_event(ci, e, t, o)
      [] e.name = "DialEnd" -> handle_dial_end_event(ci, e, t)
      [] e.name = "Hangup" -> handle_hangup_event(ci, e, t, o)

\* Lines 559-564: a matching Hangup whose cancel_b24call returned is
\* finalized and its CallInfo removed from the map.
Disposes(ci, e, step) ==
    e.name = "Hangup" /\ e.Uniqueid = ci.uniqueid /\ ~step.exc /\ finalize_call(step.ci)

\* Lines 71-88: the CallInfo of a Newchannel is stored under its Uniqueid.
NewchannelOutcome(infos, fin, e, step) ==
    Outcome(DictMerge(infos, [u \in {e.Uniqueid} |-> step.ci]),
            fin, step.log, TRUE, FALSE)

\* An exception that takes the call map with it.
RoutedOutcomeLosingMap(infos, fin, e, ci, step) ==
    IF Disposes(ci, e, step)
    THEN Outcome(DictDel(infos, step.ci.uniqueid), Some(step.ci),
                 step.log, TRUE, FALSE)
    ELSE IF step.exc THEN Outcome(EmptyDict, fin, step.log, TRUE, TRUE)
    ELSE Outcome([infos EXCEPT ![e.Linkedid] = step.ci], fin,
                 step.log, TRUE, step.exc)

\* Lines 90-113: what the handler of a routed event leaves behind.
RoutedOutcome(infos, fin, e, ci, step) ==
    IF Disposes(ci, e, step)
    THEN Outcome(DictDel(infos, step.ci.uniqueid), Some(step.ci),
                 step.log, TRUE, FALSE)
    ELSE Outcome([infos EXCEPT ![e.Linkedid] = step.ci], fin,
                 step.log, TRUE, step.exc)

\* Variant: an event of an unknown call gets a CallInfo of its own.
handle_eventCreating(infos, fin, e, t, o) ==
    IF e.name \notin event_handling THEN Outcome(infos, fin, <<>>, FALSE, FALSE)
    ELSE IF e.name = "Newchannel"
    THEN IF e.Exten \in allowed_extens
         THEN NewchannelOutcome(infos, fin, e,
                                handle_new_channel(IF e.Uniqueid \in DOMAIN infos
                                                   THEN infos[e.Uniqueid]
                                                   ELSE CallInfo(e.Uniqueid),
                                                   e, t, o))
         ELSE Outcome(infos, fin, <<>>, FALSE, FALSE)
    ELSE IF e.Linkedid \notin DOMAIN infos
    THEN Outcome(DictMerge(infos, [u \in {e.Linkedid} |-> CallInfo(e.Linkedid)]),
                 fin, <<>>, FALSE, FALSE)
    ELSE RoutedOutcome(infos, fin, e, infos[e.Linkedid],
                       RoutedStep(infos[e.Linkedid], e, t, o))

\* IncomingCallHandler.handle_event at clock tick t.
handle_event(infos, fin, e, t, o) ==
    IF e.name \notin event_handling THEN Outcome(infos, fin, <<>>, FALSE, FALSE)
    ELSE IF e.name = "Newchannel"
    THEN IF e.Exten \in allowed_extens
         THEN NewchannelOutcome(infos, fin, e,
                                handle_new_channel(IF e.Uniqueid \in DOMAIN infos
                                                   THEN infos[e.Uniqueid]
                                                   ELSE CallInfo(e.Uniqueid),
                                                   e, t, o))
         ELSE Outcome(infos, fin, <<>>, FALSE, FALSE)
    ELSE IF e.Linkedid \notin DOMAIN infos
    THEN Outcome(infos, fin, <<>>, FALSE, FALSE)
    ELSE RoutedOutcome(infos, fin, e, infos[e.Linkedid],
                       RoutedStep(infos[e.Linkedid], e, t, o))

---------------------------------------------------------------------------
\* The environment: the events the PBX may send and what the CRM and the
\* file system may do during one callback.

Calls == {"A", "B"}
Agents == {"201"}
CallIds == <<"c1", "c2", "c3">>
ActivityIds == {"a1", "a2"}
CallerNumber == "+79991110000"

\* user.get: the CRM user of an internal number.
CrmUser(internal_number) ==
    CASE internal_number = "201" -> "u201"
      [] internal_number = "202" -> "u202"
      [] OTHER -> "u203"

Contact1 == [ID |-> "C1", NAME |-> "Ann", LAST_NAME |-> "Lee", SECOND_NAME |-> ""]
Lead1 == [ID |-> "L1", uf |-> Some("t1"), STATUS_ID |-> "NEW"]
Deal1 == [ID |-> "D1", uf |-> Some("k1")]
\* A lead and a deal whose target field is outside the queue's set.
Lead2 == [ID |-> "L2", uf |-> Some("t9"), STATUS_ID |-> "NEW"]
Deal2 == [ID |-> "D2", uf |-> Some("k9")]
WavPath == [dirs |-> <<"", "monitor", "2024", "01", "02">>, stem |-> "A", ext |-> "wav"]

LocalInterface(number) == [tech |-> "Local", number |-> number, context |-> "from-queue/n"]
SipInterface(number) == [tech |-> "SIP", number |-> number, context |-> ""]

\* The events of call u (its first channel has Uniqueid u; the leg dialled
\* to an agent has a Uniqueid of its own and Linkedid u).
Newchannel(u) ==
    [name |-> "Newchannel", Uniqueid |-> u, Linkedid |-> u, Exten |-> "0008",
     CallerIDNum |-> CallerNumber, Channel |-> "SIP/trunk-1"]

QueueCallerJoin(u) ==
    [name |-> "QueueCallerJoin", Uniqueid |-> u, Linkedid |-> u, Queue |-> Some("701")]

\* A Newchannel whose Exten is not among the allowed ones.
NewchannelDenied(u) ==
    [name |-> "Newchannel", Uniqueid |-> u, Linkedid |-> u, Exten |-> "0009",
     CallerIDNum |-> CallerNumber, Channel |-> "SIP/trunk-2"]

QueueCallerJoinTo(u, q) ==
    [name |-> "QueueCallerJoin", Uniqueid |-> u, Linkedid |-> u, Queue |-> Some(q)]

DialBegin(u, a) ==
    [name |-> "DialBegin", Uniqueid |-> "leg", Linkedid |-> u,
     DestCallerIDNum |-> Some(a), DestExten |-> None]

\* The DialBegin of the call's own channel to an extension.
DialBeginOwn(u, x) ==
    [name |-> "DialBegin", Uniqueid |-> u, Linkedid |-> u,
     DestCallerIDNum |-> Some(x), DestExten |-> Some(x)]

DialEnd(u, a, status) ==
    [name |-> "DialEnd", Uniqueid |-> "leg", Linkedid |-> u,
     DestCallerIDNum |-> Some(a), DialStatus |-> Some(status)]

AgentConnect(u, i) ==
    [name |-> "AgentConnect", Uniqueid |-> u, Linkedid |-> u, Interface |-> i]

TimeRule(u, v) ==
    [name |-> "TimeRule", Uniqueid |-> u, Linkedid |-> u, TimeRule |-> Some(v)]

TimeGroup(u, v) ==
    [name |-> "TimeGroup", Uniqueid |-> u, Linkedid |-> u, TimeGroup |-> Some(v)]

IVRchoose(u, v) ==
    [name |-> "IVRchoose", Uniqueid |-> u, Linkedid |-> u, IVRchoose |-> Some(v)]

VarSet(u) ==
    [name |-> "VarSet", Uniqueid |-> u, Linkedid |-> u,
     Variable |-> "MIXMONITOR_FILENAME", Value |-> Some(WavPath)]

Hangup(u) == [name |-> "Hangup", Uniqueid |-> u, Linkedid |-> u, Cause |-> "16"]

\* The Newchannel and the Hangup of channel u of the call whose first channel
\* is l: the PBX gives every channel of a call the Linkedid l.
NewchannelLinked(u, l) == [Newchannel(u) EXCEPT !.Linkedid = l, !.Channel = "SIP/trunk-2"]

HangupLinked(u, l) == [Hangup(u) EXCEPT !.Linkedid = l]

\* The Hangup of another channel of the call (an agent's leg).
HangupLeg(u) == [name |-> "Hangup", Uniqueid |-> "leg", Linkedid |-> u, Cause |-> "16"]

\* The events of one call, as the PBX may send them in any order and number.
Events ==
    {Newchannel("A"), QueueCallerJoin("A"), VarSet("A"), Hangup("A")}
    \cup {DialBegin("A", a) : a \in Agents}
    \cup {AgentConnect("A", i) : i \in {LocalInterface(a) : a \in Agents}
                                       \cup {SipInterface("201")}}

\* The events of two calls that share the dispatcher.
QueuedEvents ==
    UNION {{Newchannel(u), QueueCallerJoin(u), Hangup(u)} : u \in Calls}

\* The CRM's behaviour when nothing fails and nothing is found.
Quiet ==
    [contacts |-> <<>>, found |-> [k \in {"lead", "deal"} |-> <<>>],
     register |-> "ok", call_id |-> "c1", created |-> None,
     add |-> "ok", new_lead |-> "L9", get |-> "ok", update |-> "ok",
     user |-> "ok", user_id |-> "u201", show |-> "ok",
     hide |-> 0, converts |-> TRUE, finish |-> "ok", activity |-> "a1",
     list |-> "ok", bound |-> {}, bindw |-> 0, attach |-> "ok"]

\* The fields of a behaviour that are failures when they differ from Quiet.
FaultFields == {"register", "add", "get", "update", "user", "show", "hide",
                "converts", "finish", "list", "bindw", "attach"}

Faults(o) == Cardinality({f \in FaultFields : o[f] # Quiet[f]})

\* What the CRM may know of the caller: nothing, or a contact with a lead
\* and a deal.
CallerChoices ==
    {[contacts |-> <<>>, found |-> [k \in {"lead", "deal"} |-> <<>>]],
     [contacts |-> <<Contact1>>,
      found |-> [k \in {"lead", "deal"} |-> IF k = "lead" THEN <<Lead1>> ELSE <<Deal1>>]]}

BoundChoices == {{}, {[entityTypeId |-> 1, entityId |-> "L1"]}}

\* The CRM never issues a CALL_ID twice: a registration returns the first id
\* no live call holds.
HeldCallIds(infos) ==
    {infos[u].b24_call_id["CALL_ID"] : u \in {v \in DOMAIN infos : HasCallId(infos[v])}}

FreshCallId(infos) ==
    CallIds[CHOOSE i \in 1..Len(CallIds) :
               /\ CallIds[i] \notin HeldCallIds(infos)
               /\ \A j \in 1..(i - 1) : CallIds[j] \in HeldCallIds(infos)]

\* What the environment may do during the callback of event e, without the
\* bound on failures.
AllBehaviours(infos, e) ==
    CASE e.name = "Newchannel" ->
           {[Quiet EXCEPT !.contacts = c.contacts, !.found = c.found] :
               c \in CallerChoices}
      [] e.name = "QueueCallerJoin" ->
           {[Quiet EXCEPT !.register = r, !.call_id = FreshCallId(infos),
                          !.created = l, !.add = a] :
               r \in MakeRequestOutcomes, l \in {None, Some("L5")},
               a \in {"ok", "none"}}
      [] e.name = "DialBegin" ->
           {[Quiet EXCEPT !.user = u,
                          !.user_id = IF IsNone(e.DestCallerIDNum) THEN "u201"
                                      ELSE CrmUser(Val(e.DestCallerIDNum)),
                          !.show = s] :
               u \in {"ok", "none"}, s \in {"ok", "raise"}}
      [] e.name = "AgentConnect" ->
           {[Quiet EXCEPT !.hide = h] : h \in 0..1}
      [] e.name = "Hangup" ->
           {[Quiet EXCEPT !.converts = cv, !.hide = h, !.finish = fi, !.activity = ac,
                          !.list = li, !.bound = bd, !.attach = at] :
               cv \in BOOLEAN, h \in 0..1, fi \in MakeRequestOutcomes,
               ac \in ActivityIds, li \in MakeRequestOutcomes, bd \in BoundChoices,
               at \in {"ok", "none"}}
      [] OTHER -> {Quiet}

Behaviours(infos, e) == {o \in AllBehaviours(infos, e) : Faults(o) <= MaxFaults}

\* Behaviours in which no request fails.
QuietBehaviours(infos, e) == {o \in AllBehaviours(infos, e) : Faults(o) = 0}

---------------------------------------------------------------------------
\* Specification: run_daemon registers handle_event for every event; the
\* manager's dispatcher calls it for one event at a time, in the order in
\* which the events were read from the socket.

\* The correlation id handle_event routes an event by.
Corr(e) == IF e.name = "Newchannel" THEN e.Uniqueid ELSE e.Linkedid

\* The event's Uniqueid is that of the CallInfo it is routed to.
Matches(infos, e) ==
    IF Corr(e) \in DOMAIN infos THEN e.Uniqueid = infos[Corr(e)].uniqueid ELSE FALSE

\* The daemon after start: no call, nothing dispatched.
InitDaemon ==
    /\ call_infos = EmptyDict
    /\ final_info = None
    /\ now = 0
    /\ pending = <<>>
    /\ cur = None
    /\ arrived = 0
    /\ last = [name |-> "none", Uniqueid |-> "", Linkedid |-> "", seq |-> 0,
               routed |-> FALSE, match |-> FALSE, exc |-> FALSE]
    /\ sent = <<>>

Init ==
    /\ InitDaemon
    /\ binding_call = binding_call_ini
    /\ probe = None

\* The effect r of a callback becomes the program's state.
Record(r, e, seq, t) ==
    /\ call_infos' = r.infos
    /\ final_info' = r.final
    /\ last' = [name |-> e.name, Uniqueid |-> e.Uniqueid, Linkedid |-> e.Linkedid,
                seq |-> seq, routed |-> r.routed,
                match |-> r.routed /\ Matches(call_infos, e), exc |-> r.exc]
    /\ sent' = r.log
    /\ now' = t

\* The callback of event e, the seq-th to arrive, runs to completion at
\* clock tick t.
Handle(e, seq, t, o) ==
    Record(handle_event(call_infos, final_info, e, t, o), e, seq, t)

\* The handlers whose clock reading is followed in this specification; the
\* others run at the time of the event before them.
ReadsClock == {"Newchannel", "AgentConnect", "Hangup"}
Clock(e) == IF e.name \in ReadsClock THEN now..MaxTime ELSE {now}

\* The PBX sends no event of a call whose CallInfo was finalized (it does
\* not use a Uniqueid twice).
Fresh(e) ==
    IF ~IsNone(final_info)
    THEN Val(final_info).uniqueid # Corr(e)
    ELSE TRUE

\* An event arrives while the dispatcher is idle and is handled at once.
Deliver ==
    /\ cur = None /\ pending = <<>>
    /\ arrived < MaxEvents
    /\ arrived' = arrived + 1
    /\ \E e \in Events : \E t \in Clock(e) :
          /\ Fresh(e)
          /\ \E o \in Behaviours(call_infos, e) : Handle(e, arrived + 1, t, o)
    /\ UNCHANGED <<pending, cur, binding_call, probe>>

Next == Deliver

Spec == Init /\ [][Next]_vars

---------------------------------------------------------------------------
\* The dispatcher in steps: events are read from the socket into a queue
\* while a callback runs; the dispatcher takes the oldest one when the
\* callback has returned.

\* The reader thread puts an event on the queue.
Receive ==
    /\ arrived < MaxEvents
    /\ Len(pending) < MaxPending
    /\ \E e \in QueuedEvents :
          /\ Fresh(e)
          /\ pending' = Append(pending, [e |-> e, seq |-> arrived + 1])
    /\ arrived' = arrived + 1
    /\ UNCHANGED <<call_infos, final_info, now, cur, last, sent, binding_call, probe>>

\* A dispatcher that takes the newest event.
BeginNewest ==
    /\ cur = None
    /\ pending # <<>>
    /\ cur' = Some(pending[Len(pending)])
    /\ pending' = SubSeq(pending, 1, Len(pending) - 1)
    /\ UNCHANGED <<call_infos, final_info, now, arrived, last, sent, binding_call, probe>>

\* The dispatcher takes the oldest event and calls handle_event with it.
Begin ==
    /\ cur = None
    /\ pending # <<>>
    /\ cur' = Some(Head(pending))
    /\ pending' = Tail(pending)
    /\ UNCHANGED <<call_infos, final_info, now, arrived, last, sent, binding_call, probe>>

\* handle_event returns: its requests to the CRM have been answered and its
\* changes to the call map are made.
Finish ==
    /\ cur # None
    /\ \E o \in QuietBehaviours(call_infos, Val(cur).e) :
          Handle(Val(cur).e, Val(cur).seq, now, o)
    /\ cur' = None
    /\ UNCHANGED <<pending, arrived, binding_call, probe>>

NextQueued == Receive \/ Begin \/ Finish

SpecQueued == Init /\ [][NextQueued]_vars

---------------------------------------------------------------------------
\* A call that rings at several agents.  The CRM's side of the call windows
\* is followed in probe: opened holds the agents whose show request the CRM
\* answered, e the event handled last.

RingingAgents == {"201", "202", "203"}

AgentEvents ==
    {Newchannel("A"), QueueCallerJoin("A")}
    \cup {DialBegin("A", a) : a \in RingingAgents}
    \cup {AgentConnect("A", LocalInterface(a)) : a \in RingingAgents}

\* The CRM finds every agent's user; a show request may be left unanswered,
\* and the transport may fail on one of the hide requests.
AgentBehaviours(infos, e) ==
    {o \in CASE e.name = "QueueCallerJoin" ->
                  {[Quiet EXCEPT !.call_id = FreshCallId(infos)]}
             [] e.name = "DialBegin" ->
                  {[Quiet EXCEPT !.user_id = CrmUser(Val(e.DestCallerIDNum)), !.show = s] :
                      s \in {"ok", "none"}}
             [] e.name = "AgentConnect" ->
                  {[Quiet EXCEPT !.hide = h] : h \in 0..Cardinality(RingingAgents)}
             [] OTHER -> {Quiet} :
        Faults(o) <= MaxFaults}

ShowEp == "telephony.externalcall.show"
HideEp == "telephony.externalcall.hide"

InitAgents ==
    /\ InitDaemon
    /\ binding_call = binding_call_ini
    /\ probe = [opened |-> {}, e |-> None]

DeliverAgents ==
    /\ cur = None /\ pending = <<>>
    /\ arrived < MaxAgentEvents
    /\ arrived' = arrived + 1
    /\ \E e \in AgentEvents :
          /\ \E o \in AgentBehaviours(call_infos, e) : Handle(e, arrived + 1, now, o)
          /\ probe' = [opened |->
                          IF \E i \in 1..Len(sent') :
                                sent'[i].ep = ShowEp /\ sent'[i].res = "ok"
                          THEN probe.opened \cup {Val(e.DestCallerIDNum)}
                          ELSE probe.opened,
                       e |-> Some(e)]
    /\ UNCHANGED <<pending, cur, binding_call>>

NextAgents == DeliverAgents

SpecAgents == InitAgents /\ [][NextAgents]_vars

---------------------------------------------------------------------------
\* Enrichment on its own: the PBX announces each call by one Newchannel, the
\* CRM answers the lookups with any contact, any list of leads of any
\* status and any list of deals.  probe is what the CRM had for the number
\* of the last call announced.

LeadIds == <<"L1", "L2", "L3", "L4">>

LeadStatuses == {"NEW", "CONVERTED", "JUNK"}

\* The responses of crm.lead.list with n leads.
LeadLists(n) ==
    {[i \in 1..n |-> [ID |-> LeadIds[i], uf |-> Some("t1"), STATUS_ID |-> st[i]]] :
        st \in [1..n -> LeadStatuses]}

\* What the CRM may hold for a caller's number.
EnrichChoices ==
    {[contacts |-> c, found |-> [k \in {"lead", "deal"} |-> IF k = "lead" THEN l ELSE d]] :
        c \in {<<>>, <<Contact1>>},
        l \in UNION {LeadLists(n) : n \in 0..MaxLeads},
        d \in {<<>>, <<Deal1>>}}

InitEnrich ==
    /\ InitDaemon
    /\ binding_call = binding_call_ini
    /\ probe = None

\* The Newchannel of a call not announced before.
Announce ==
    /\ cur = None /\ pending = <<>>
    /\ \E u \in Calls \ DOMAIN call_infos : \E c \in EnrichChoices :
          /\ Handle(Newchannel(u), arrived + 1, now,
                    [Quiet EXCEPT !.contacts = c.contacts, !.found = c.found])
          /\ probe' = Some(c)
    /\ arrived' = arrived + 1
    /\ UNCHANGED <<pending, cur, binding_call>>

NextEnrich == Announce

SpecEnrich == InitEnrich /\ [][NextEnrich]_vars

---------------------------------------------------------------------------
\* The binding engine on its own: _call_binding is run on the record of a
\* call as Newchannel and QueueCallerJoin left it, after the finish request
\* stored an activity id, under every [Bitrix24_Binding_Call] section over
\* the three modes.  The CRM answers every request and does what it is
\* asked; probe follows the bindings of the activity: bindings are those it
\* holds now, before those it held when the last run began, runs counts the
\* runs.

BindingModes == {"ALL", "FILTERED", "NONE"}

\* What the CRM may hold for the caller's number.
BindingCallers ==
    {[contacts |-> c, found |-> [k \in {"lead", "deal"} |-> IF k = "lead" THEN l ELSE d]] :
        c \in {<<>>, <<Contact1>>},
        l \in {<<>>, <<Lead1>>, <<Lead2>>, <<Lead1, Lead2>>},
        d \in {<<>>, <<Deal1>>, <<Deal2>>, <<Deal1, Deal2>>}}

\* The bindings an activity may hold when the engine starts.
Binding(entity_type, id) ==
    [entityTypeId |-> bindings_entities_mapping[entity_type], entityId |-> id]

BindableEntities ==
    {Binding("lead", "L1"), Binding("lead", "L2"), Binding("lead", "L9"),
     Binding("deal", "D1"), Binding("deal", "D2")}

\* The record of call A when cancel_b24call calls _call_binding: caller c
\* was looked up on Newchannel, the registration of QueueCallerJoin created
\* a lead when crm.lead.add answered (add), the finish request returned an
\* activity id.
RecordAtBinding(c, add) ==
    update_call_info(
        handle_queue_event(
            handle_new_channel(CallInfo("A"), Newchannel("A"), 0,
                               [Quiet EXCEPT !.contacts = c.contacts, !.found = c.found]).ci,
            QueueCallerJoin("A"),
            [Quiet EXCEPT !.add = add]).ci,
        "crm_activity_id", Some("a1"))

\* The CRM after the binding writes of log, in the order sent.
RECURSIVE Applied(_, _)
Applied(log, bindings) ==
    IF Len(log) = 0 THEN bindings
    ELSE Applied(Tail(log),
                 CASE Head(log).ep = "crm.activity.binding.add" ->
                        bindings \cup {[entityTypeId |-> Head(log).entityTypeId,
                                        entityId |-> Head(log).entityId]}
                   [] Head(log).ep = "crm.activity.binding.delete" ->
                        bindings \ {[entityTypeId |-> Head(log).entityTypeId,
                                     entityId |-> Head(log).entityId]}
                   [] OTHER -> bindings)

InitBinding ==
    /\ final_info = None
    /\ now = 0
    /\ pending = <<>>
    /\ cur = None
    /\ arrived = 0
    /\ last = [name |-> "none", Uniqueid |-> "", Linkedid |-> "", seq |-> 0,
               routed |-> FALSE, match |-> FALSE, exc |-> FALSE]
    /\ sent = <<>>
    /\ binding_call \in [{"lead", "deal"} -> BindingModes]
    /\ \E c \in BindingCallers : \E add \in {"ok", "none"} :
          call_infos = [u \in {"A"} |-> RecordAtBinding(c, add)]
    /\ \E b \in SUBSET BindableEntities :
          probe = [bindings |-> b, before |-> b, runs |-> 0, exc |-> FALSE]

\* The outcome r of a run becomes the state.
RecordBinding(r) ==
    /\ call_infos' = [call_infos EXCEPT !["A"] = r.ci]
    /\ sent' = r.log
    /\ probe' = [bindings |-> Applied(r.log, probe.bindings),
                 before |-> probe.bindings,
                 runs |-> probe.runs + 1,
                 exc |-> r.exc]

\* One run of _call_binding against what the CRM holds.
RunBinding ==
    /\ probe.runs < MaxRuns
    /\ RecordBinding(call_binding(call_infos["A"], "ok", probe.bindings, 0))
    /\ UNCHANGED <<final_info, now, pending, cur, arrived, last, binding_call>>

NextBinding == RunBinding

SpecBinding == InitBinding /\ [][NextBinding]_vars

\* The engine on entities that come without the target field: the select
\* list of get_entities_info is fixed (line 243), the field the engine
\* indexes is the configured <kind>_uf_list_id, so a response need not hold
\* it.  uf = None stands for the missing key.
Lead3 == [ID |-> "L3", uf |-> None, STATUS_ID |-> "NEW"]
Deal3 == [ID |-> "D3", uf |-> None]

SparseCallers ==
    {[contacts |-> <<Contact1>>,
      found |-> [k \in {"lead", "deal"} |-> IF k = "lead" THEN l ELSE d]] :
        l \in {<<Lead1>>, <<Lead3>>, <<Lead3, Lead1>>, <<Lead1, Lead3>>},
        d \in {<<>>, <<Deal1>>, <<Deal3>>, <<Deal3, Deal1>>}}

SparseEntities ==
    {Binding("lead", "L1"), Binding("lead", "L3"), Binding("deal", "D1"),
     Binding("deal", "D3")}

InitSparse ==
    /\ final_info = None
    /\ now = 0
    /\ pending = <<>>
    /\ cur = None
    /\ arrived = 0
    /\ last = [name |-> "none", Uniqueid |-> "", Linkedid |-> "", seq |-> 0,
               routed |-> FALSE, match |-> FALSE, exc |-> FALSE]
    /\ sent = <<>>
    /\ binding_call \in [{"lead", "deal"} -> BindingModes]
    /\ \E c \in SparseCallers :
          call_infos = [u \in {"A"} |-> RecordAtBinding(c, "ok")]
    /\ \E b \in SUBSET SparseEntities :
          probe = [bindings |-> b, before |-> b, runs |-> 0, exc |-> FALSE]

SpecSparse == InitSparse /\ [][NextBinding]_vars

---------------------------------------------------------------------------
\* The contact lookup on its own: crm.contact.list returned probe.contacts,
\* find_contact_by_phone selects probe.best.

ContactIds == <<"C1", "C2", "C3", "C4", "C5">>

NameValues == {"", "x"}

\* The responses of crm.contact.list with n candidates; the CRM returns
\* each contact once, in its own order.
ContactLists(n) ==
    {[i \in 1..n |-> [ID |-> ContactIds[i], NAME |-> f[i][1],
                      LAST_NAME |-> f[i][2], SECOND_NAME |-> f[i][3]]] :
        f \in [1..n -> NameValues \X NameValues \X NameValues]}

InitContacts ==
    /\ InitDaemon
    /\ binding_call = binding_call_ini
    /\ \E n \in 0..MaxContacts : \E cs \in ContactLists(n) :
          probe = [contacts |-> cs, best |-> None, done |-> FALSE]

\* find_contact_by_phone on the response.
SelectContact ==
    /\ ~probe.done
    /\ probe' = [probe EXCEPT !.best = find_contact_by_phone(probe.contacts),
                              !.done = TRUE]
    /\ UNCHANGED <<call_infos, final_info, now, pending, cur, arrived, last, sent,
                   binding_call>>

NextContacts == SelectContact

SpecContacts == InitContacts /\ [][NextContacts]_vars

---------------------------------------------------------------------------
\* Registration on its own: call A is announced once, with any caller the
\* CRM may know, and enters any of the configured queues up to MaxJoins
\* times; each request of the registration may be answered or not.  probe
\* holds the record of the call before the last QueueCallerJoin and what the
\* CRM did during it.

Queues == {"701", "702", "703"}

\* What the CRM may do during a QueueCallerJoin.
RegisterBehaviours(infos) ==
    {[Quiet EXCEPT !.register = r, !.call_id = FreshCallId(infos), !.created = l,
                   !.add = a, !.get = g, !.update = up] :
        r \in MakeRequestOutcomes, l \in {None, Some("L5")},
        a \in {"ok", "none"}, g \in {"ok", "none"}, up \in {"ok", "none"}}

InitRegister ==
    /\ InitDaemon
    /\ binding_call = binding_call_ini
    /\ probe = None

AnnounceCaller ==
    /\ cur = None /\ pending = <<>>
    /\ "A" \notin DOMAIN call_infos
    /\ \E c \in BindingCallers :
          Handle(Newchannel("A"), arrived + 1, now,
                 [Quiet EXCEPT !.contacts = c.contacts, !.found = c.found])
    /\ arrived' = arrived + 1
    /\ UNCHANGED <<pending, cur, binding_call, probe>>

Join ==
    /\ cur = None /\ pending = <<>>
    /\ "A" \in DOMAIN call_infos
    /\ arrived <= MaxJoins
    /\ \E q \in Queues : \E o \in RegisterBehaviours(call_infos) :
          /\ Handle(QueueCallerJoinTo("A", q), arrived + 1, now, o)
          /\ probe' = Some([before |-> call_infos["A"], o |-> o])
    /\ arrived' = arrived + 1
    /\ UNCHANGED <<pending, cur, binding_call>>

NextRegister == AnnounceCaller \/ Join

SpecRegister == InitRegister /\ [][NextRegister]_vars

---------------------------------------------------------------------------
\* Events of calls that are not live: call A is announced from an allowed
\* extension, call B from one that is not allowed, and the PBX sends events
\* of both, also after the Hangup of A (the legs of a call hang up one by
\* one under the same Linkedid).  The CRM answers every request.  probe is
\* the event of the last callback.

StrayEvents ==
    {Newchannel("A"), NewchannelDenied("B")}
    \cup UNION {{QueueCallerJoin(u), DialBegin(u, "201"),
                 AgentConnect(u, LocalInterface("201")), VarSet(u), Hangup(u)} :
                   u \in Calls}

InitStray ==
    /\ InitDaemon
    /\ binding_call = binding_call_ini
    /\ probe = None

DeliverStray ==
    /\ cur = None /\ pending = <<>>
    /\ arrived < MaxStrayEvents
    /\ arrived' = arrived + 1
    /\ \E e \in StrayEvents :
          /\ e.name = "Newchannel" => Fresh(e)
          /\ \E o \in QuietBehaviours(call_infos, e) : Handle(e, arrived + 1, now, o)
          /\ probe' = Some(e)
    /\ UNCHANGED <<pending, cur, binding_call>>

NextStray == DeliverStray

SpecStray == InitStray /\ [][NextStray]_vars

---------------------------------------------------------------------------
\* A call that is dialed to an agent.  Each callback reads the clock;
\* probe holds the event handled last.

DialStatuses == {"BUSY", "ANSWER"}

DialEvents ==
    {Newchannel("A"), QueueCallerJoin("A"), DialBegin("A", "201"),
     DialBeginOwn("A", "201"), AgentConnect("A", LocalInterface("201")),
     VarSet("A"), HangupLeg("A")}
    \cup {DialEnd("A", "201", st) : st \in DialStatuses}

InitDial ==
    /\ InitDaemon
    /\ binding_call = binding_call_ini
    /\ probe = None

DeliverDial ==
    /\ cur = None /\ pending = <<>>
    /\ arrived < MaxDialEvents
    /\ arrived' = arrived + 1
    /\ \E e \in DialEvents : \E t \in now..MaxTime :
          /\ e.name = "Newchannel" => "A" \notin DOMAIN call_infos
          /\ \E o \in Behaviours(call_infos, e) : Handle(e, arrived + 1, t, o)
          /\ probe' = Some(e)
    /\ UNCHANGED <<pending, cur, binding_call>>

NextDial == DeliverDial

SpecDial == InitDial /\ [][NextDial]_vars

---------------------------------------------------------------------------
\* The PBX link (main.py, run_daemon).  probe holds where run_daemon is:
\* "connecting" before manager.connect and login returned, "up" in the ping
\* loop, "exited" after it returned.  run_daemon is called once by main,
\* which returns after it; the handler and its call_infos are locals of
\* run_daemon.

LinkEvents ==
    {Newchannel("A"), QueueCallerJoin("A"), DialBegin("A", "201"),
     DialEnd("A", "201", "BUSY"), Hangup("A")}

InitLink ==
    /\ InitDaemon
    /\ binding_call = binding_call_ini
    /\ probe = "connecting"

\* Lines 38-43: connect, login and register_event succeed or raise.
Connect ==
    /\ probe = "connecting"
    /\ probe' \in {"up", "exited"}
    /\ UNCHANGED <<call_infos, final_info, now, pending, cur, arrived, last, sent,
                   binding_call>>

\* An event is read from the link and handled.
DeliverLinked ==
    /\ probe = "up"
    /\ cur = None /\ pending = <<>>
    /\ arrived < MaxLinkEvents
    /\ arrived' = arrived + 1
    /\ \E e \in LinkEvents : \E t \in now..MaxTime :
          /\ Fresh(e)
          /\ e.name = "Newchannel" => "A" \notin DOMAIN call_infos
          /\ \E o \in QuietBehaviours(call_infos, e) : Handle(e, arrived + 1, t, o)
    /\ UNCHANGED <<pending, cur, binding_call, probe>>

\* Lines 45-56: the link drops, manager.ping raises, the except block logs
\* the error, the finally block logs off and run_daemon returns: its
\* locals are gone and nothing connects again.
LinkDrop ==
    /\ probe = "up"
    /\ probe' = "exited"
    /\ call_infos' = EmptyDict
    /\ UNCHANGED <<final_info, now, pending, cur, arrived, last, sent, binding_call>>

NextLink == Connect \/ DeliverLinked \/ LinkDrop

\* The main thread and the manager's dispatcher thread both run while they
\* can.
SpecLink == InitLink /\ [][NextLink]_vars /\ WF_vars(NextLink)

---------------------------------------------------------------------------
\* Two calls that ring at the same agents.  probe holds the event handled
\* last.

CacheAgents == {"201", "202"}

CacheEvents ==
    UNION {{Newchannel(u), QueueCallerJoin(u)} \cup {DialBegin(u, a) : a \in CacheAgents} :
              u \in Calls}

\* The CRM may not know the user of an agent, and a show request may fail.
CacheBehaviours(infos, e) ==
    IF e.name = "DialBegin" THEN Behaviours(infos, e) ELSE QuietBehaviours(infos, e)

InitCache ==
    /\ InitDaemon
    /\ binding_call = binding_call_ini
    /\ probe = None

DeliverCache ==
    /\ cur = None /\ pending = <<>>
    /\ arrived < MaxCacheEvents
    /\ arrived' = arrived + 1
    /\ \E e \in CacheEvents :
          /\ e.name = "Newchannel" => e.Uniqueid \notin DOMAIN call_infos
          /\ \E o \in CacheBehaviours(call_infos, e) : Handle(e, arrived + 1, now, o)
          /\ probe' = Some(e)
    /\ UNCHANGED <<pending, cur, binding_call>>

NextCache == DeliverCache

SpecCache == InitCache /\ [][NextCache]_vars

---------------------------------------------------------------------------
\* The routing of a call through time rules, time groups and the
\* interactive menu.  probe holds the values of the events handled for the
\* live call, per kind, in arrival order.

TimelineValues == {"v1", "v2"}

TimelineEvents ==
    {Newchannel("A")}
    \cup UNION {{TimeRule("A", v), TimeGroup("A", v), IVRchoose("A", v)} :
                   v \in TimelineValues}

InitTimeline ==
    /\ InitDaemon
    /\ binding_call = binding_call_ini
    /\ probe = [TimeRule |-> <<>>, TimeGroup |-> <<>>, IVRchoose |-> <<>>]

DeliverTimeline ==
    /\ cur = None /\ pending = <<>>
    /\ arrived <= MaxTimelineEvents
    /\ arrived' = arrived + 1
    /\ \E e \in TimelineEvents :
          /\ e.name = "Newchannel" => "A" \notin DOMAIN call_infos
          /\ Handle(e, arrived + 1, now, Quiet)
          /\ probe' = IF e.name # "Newchannel" /\ "A" \in DOMAIN call_infos
                      THEN [probe EXCEPT ![e.name] = Append(@, Val(e[e.name]))]
                      ELSE probe
    /\ UNCHANGED <<pending, cur, binding_call>>

NextTimeline == DeliverTimeline

SpecTimeline == InitTimeline /\ [][NextTimeline]_vars

---------------------------------------------------------------------------
\* A call with a second channel B that enters through an allowed extension
\* with the Linkedid of the first channel A.  probe holds, for every
\* Uniqueid a Newchannel was handled for, the Linkedid of that Newchannel.

LinkedEvents ==
    {Newchannel("A"), NewchannelLinked("B", "A"), QueueCallerJoin("A"),
     Hangup("A"), HangupLinked("B", "A")}

InitLinked ==
    /\ InitDaemon
    /\ binding_call = binding_call_ini
    /\ probe = [u \in Calls |-> None]

DeliverLinkedChannel ==
    /\ cur = None /\ pending = <<>>
    /\ arrived < MaxLinkedEvents
    /\ arrived' = arrived + 1
    /\ \E e \in LinkedEvents :
          /\ e.name = "Newchannel" => IsNone(probe[e.Uniqueid])
          /\ e.name # "Newchannel" => ~IsNone(probe[e.Uniqueid])
          /\ Fresh(e)
          /\ \E o \in QuietBehaviours(call_infos, e) : Handle(e, arrived + 1, now, o)
          /\ probe' = IF e.name = "Newchannel"
                      THEN [probe EXCEPT ![e.Uniqueid] = Some(e.Linkedid)]
                      ELSE probe
    /\ UNCHANGED <<pending, cur, binding_call>>

NextLinked == DeliverLinkedChannel

SpecLinked == InitLinked /\ [][NextLinked]_vars

---------------------------------------------------------------------------
\* Properties of the call lifecycle.

\* The last callback handled a Hangup whose Uniqueid is that of the
\* CallInfo it was routed to.
LastHangup == last.name = "Hangup" /\ last.match

\* Call u was finalized and removed from the map.
Disposed(u) ==
    /\ u \notin DOMAIN call_infos
    /\ ~IsNone(final_info)
    /\ Val(final_info).uniqueid = u

\* The record of the call the last Hangup was for, as the handler left it.
LastRecord ==
    IF last.Linkedid \in DOMAIN call_infos THEN call_infos[last.Linkedid]
    ELSE Val(final_info)

FinishEp == "telephony.externalcall.finish"
AttachEp == "telephony.externalCall.attachRecord"
FinalizationSteps == {"telephony.externalcall.hide", FinishEp, "crm.activity.binding.list"}

Requests(ep) == {i \in 1..Len(sent) : sent[i].ep = ep}

\* C1: every call created by Newchannel is finalized and removed from the
\* map by the callback that handles its Hangup; none stays in the map once
\* its Hangup was processed.
C1_HangupDisposes == LastHangup => Disposed(last.Linkedid)

\* C2: a matching Hangup finalizes and removes the call in any state, also
\* a call that never got a CALL_ID (no QueueJoin, or a failed registration).
C2_HangupWithoutCallIdDisposes ==
    (LastHangup /\ ~HasCallId(LastRecord)) => Disposed(last.Linkedid)

\* C3: when one CRM step of the finalization fails (hide, finish or the
\* binding list; transport error or no result) the remaining steps still
\* run: the recording is offered for attachment and the call is disposed.
C3_FailedStepContinues ==
    (LastHangup /\ \E i \in 1..Len(sent) :
                      sent[i].ep \in FinalizationSteps /\ sent[i].res # "ok")
    => /\ Disposed(last.Linkedid)
       /\ ~IsNone(LastRecord.call_record_mp3) => Requests(AttachEp) # {}

\* C4: answer_start_time is set exactly when accepted_by_agent is set, in
\* every live record, whatever Interface AgentConnect carried.
C4_AnsweredIffAccepted ==
    \A u \in DOMAIN call_infos :
        IsNone(call_infos[u].answer_start_time) <=> IsNone(call_infos[u].accepted_by_agent)

\* C5: the CALL_ID a call holds is stored once and never changes, however
\* many QueueCallerJoin events arrive.
C5_CallIdStable ==
    [][\A u \in (DOMAIN call_infos) \cap (DOMAIN call_infos') :
          HasCallId(call_infos[u]) =>
              /\ HasCallId(call_infos'[u])
              /\ call_infos'[u].b24_call_id["CALL_ID"] = call_infos[u].b24_call_id["CALL_ID"]]_vars

\* C6 as stated: crm_activity_id is unset in every live record and set in
\* every finalized one.
C6_ActivitySetWhenFinalized ==
    /\ \A u \in DOMAIN call_infos : IsNone(call_infos[u].crm_activity_id)
    /\ ~IsNone(final_info) => ~IsNone(Val(final_info).crm_activity_id)

\* C6 amended: crm_activity_id is unset in every live record; a finalized
\* record holds the CRM_ACTIVITY_ID the one finish request of its
\* finalization returned, and none when that request gave no result.
C6_ActivityFromFinish ==
    /\ \A u \in DOMAIN call_infos : IsNone(call_infos[u].crm_activity_id)
    /\ (LastHangup /\ Disposed(last.Linkedid)) =>
          /\ Cardinality(Requests(FinishEp)) = 1
          /\ \A i \in Requests(FinishEp) :
                Val(final_info).crm_activity_id = sent[i].result

\* A call finalized with the activity id the CRM returned.
C6_Witness ==
    /\ LastHangup /\ Disposed(last.Linkedid)
    /\ Val(final_info).crm_activity_id = Some("a2")

C10_FinishCarriesDuration ==
    LastHangup =>
        \A i \in Requests(FinishEp) :
            /\ sent[i].CALL_ID = LastRecord.b24_call_id["CALL_ID"]
            /\ sent[i].DURATION = LastRecord.duration

---------------------------------------------------------------------------
\* Properties of the dispatch.

\* The correlation id of the event the last callback handled.
LastCorr == IF last.name = "Newchannel" THEN last.Uniqueid ELSE last.Linkedid

\* C7: events of one call are handled in the order of their arrival: while
\* a callback runs or after it returned, every waiting event of the same
\* call arrived later, and a callback starts only after the callbacks of the
\* earlier events of its call returned.
C7_ArrivalOrder ==
    /\ \A i \in 1..Len(pending) :
          /\ (cur # None /\ Corr(pending[i].e) = Corr(Val(cur).e))
                => pending[i].seq > Val(cur).seq
          /\ Corr(pending[i].e) = LastCorr => pending[i].seq > last.seq
    /\ (cur # None /\ Corr(Val(cur).e) = LastCorr) => Val(cur).seq > last.seq

\* A callback of a call runs after an earlier one of the same call returned,
\* while a later event of that call waits.
C7_Witness ==
    /\ cur # None
    /\ Corr(Val(cur).e) = LastCorr
    /\ \E i \in 1..Len(pending) : Corr(pending[i].e) = Corr(Val(cur).e)

\* C8: while the callback of one call runs (blocked on the CRM or on the
\* audio conversion), a waiting event of another call can be dispatched.
C8_OtherCallsProceed ==
    (cur # None /\ pending # <<>> /\ Corr(Head(pending).e) # Corr(Val(cur).e))
    => ENABLED Begin

---------------------------------------------------------------------------
\* Properties of the finalization (cancel_b24call as run by the Hangup
\* handler).

\* Every request the last callback sent was answered with a result.
AllAnswered == \A i \in 1..Len(sent) : sent[i].res = "ok"

\* The CRM user the finish request names for record r: the accepting agent's
\* when the agent's user id is cached, the service user's otherwise.
FinishUser(r) ==
    IF ~IsNone(r.accepted_by_agent) /\ HasNumber(r.internal_b24ids, Val(r.accepted_by_agent))
    THEN UserIdOf(r.internal_b24ids, Val(r.accepted_by_agent))
    ELSE call_admin_id

\* C11: the finish request names the accepting agent's CRM user when that
\* user id is cached and the service user in every other case (call not
\* answered, or answered by an agent whose user id is not cached), and the
\* finalization proceeds in each case: for a registered call whose requests
\* are all answered the finish request is sent and the call is disposed.
C11_FinishUser ==
    (LastHangup /\ HasCallId(LastRecord) /\ AllAnswered) =>
        /\ Cardinality(Requests(FinishEp)) = 1
        /\ \A i \in Requests(FinishEp) : sent[i].USER_ID = FinishUser(LastRecord)
        /\ Disposed(last.Linkedid)

\* The place of a CRM operation in the finalization: hiding the windows,
\* finishing the call, the binding operations, the attachment of the
\* recording, the completion of the activity.
FinalizationRank(ep) ==
    CASE ep = "telephony.externalcall.hide" -> 1
      [] ep = FinishEp -> 2
      [] ep \in {"crm.activity.binding.list"} \cup BindingWriteEps -> 3
      [] ep = AttachEp -> 4
      [] ep = "crm.activity.update" -> 5
      [] OTHER -> 0

\* C12: the CRM operations of one finalization are sent in the order hide,
\* finish, binding list/add/delete, attach, activity update; the callback
\* sends nothing else, and a call is removed from the map only by a callback
\* that has sent the finish request before.
C12_FinalizationOrder ==
    LastHangup =>
        /\ \A i \in 1..Len(sent) : FinalizationRank(sent[i].ep) > 0
        /\ \A i \in 1..Len(sent) : \A j \in 1..Len(sent) :
              i < j => FinalizationRank(sent[i].ep) <= FinalizationRank(sent[j].ep)
        /\ Disposed(last.Linkedid) => Requests(FinishEp) # {}

\* A finalization that hid a window, finished the call, added a binding,
\* attached the recording and completed the activity, and removed the call.
C12_Witness ==
    /\ LastHangup /\ Disposed(last.Linkedid)
    /\ \A k \in 1..5 : \E i \in 1..Len(sent) : FinalizationRank(sent[i].ep) = k
    /\ Requests("crm.activity.binding.add") # {}

UpdateEp == "crm.activity.update"

\* C13: the activity is completed (COMPLETED=Y) only after a recording
\* attach of the same finalization succeeded; without a converted recording
\* (raw path unset, file missing, or encoding failed) no attach and no
\* completion is sent, and the finalization still completes: the call is
\* disposed.
C13_CompletedOnlyAfterAttach ==
    LastHangup =>
        /\ \A j \in Requests(UpdateEp) :
              \E i \in Requests(AttachEp) : i < j /\ sent[i].res = "ok"
        /\ IsNone(LastRecord.call_record_mp3) =>
              /\ Requests(AttachEp) = {}
              /\ Requests(UpdateEp) = {}
              /\ Disposed(last.Linkedid)

\* The part of C13 about the requests alone: completion only after a
\* successful attach, neither of them without a converted recording.
AttachGuardsCompletion ==
    LastHangup =>
        /\ \A j \in Requests(UpdateEp) :
              \E i \in Requests(AttachEp) : i < j /\ sent[i].res = "ok"
        /\ IsNone(LastRecord.call_record_mp3) =>
              (Requests(AttachEp) = {} /\ Requests(UpdateEp) = {})

---------------------------------------------------------------------------
\* Properties of the call windows.

\* The CRM users the last callback sent a hide request for.
HiddenUsers == {sent[i].USER_ID : i \in Requests(HideEp)}

\* The last callback handled an AgentConnect of the call's own channel.
LastAgentConnect == last.name = "AgentConnect" /\ last.match

\* The agent the last AgentConnect was for.
ConnectedAgent == Val(AgentNumber(Val(probe.e).Interface))

\* C14: on AgentConnect for agent X a hide request is sent for every other
\* agent whose call window was opened before in this call, and none for X.
C14_HidesOthersOnly ==
    LastAgentConnect =>
        /\ \A a \in probe.opened \ {ConnectedAgent} : CrmUser(a) \in HiddenUsers
        /\ CrmUser(ConnectedAgent) \notin HiddenUsers

\* The same when the transport carries every hide request.
HidesOthersWhenAnswered ==
    (LastAgentConnect /\ AllAnswered) =>
        /\ \A a \in probe.opened \ {ConnectedAgent} : CrmUser(a) \in HiddenUsers
        /\ CrmUser(ConnectedAgent) \notin HiddenUsers

\* Windows were opened for 201, 202 and 203 and agent 202 answered.
HidesOthersCase ==
    /\ LastAgentConnect /\ AllAnswered
    /\ probe.opened = RingingAgents
    /\ ConnectedAgent = "202"
    /\ HiddenUsers = {"u201", "u203"}


---------------------------------------------------------------------------
\* Properties of the binding engine (SpecBinding).

BindingRecord == call_infos["A"]

\* The entities of a kind the engine worked on: the stored list (with the
\* new lead once the engine put it there), or the new lead alone.
KnownEntities(kind) ==
    IF kind \in DOMAIN BindingRecord.caller_b24_entities
    THEN BindingRecord.caller_b24_entities[kind]
    ELSE IF kind = "lead" /\ ~IsNone(BindingRecord.b24_new_lead_id)
    THEN <<[ID |-> Val(BindingRecord.b24_new_lead_id),
            uf |-> Some(queue_b24_lead_target[Val(BindingRecord.queue)][1])]>>
    ELSE <<>>

KnownIds(kind) == {KnownEntities(kind)[i].ID : i \in 1..Len(KnownEntities(kind))}

\* The queue's configured set of target values for a kind.
QueueSet(kind) ==
    IF kind = "lead" THEN queue_b24_lead_target[Val(BindingRecord.queue)]
    ELSE queue_b24_deal_categories[Val(BindingRecord.queue)]

InQueueSet(kind, item) ==
    \E i \in 1..Len(QueueSet(kind)) : QueueSet(kind)[i] = Val(item.uf)

\* Positions in the request log of the last run of the writes of one
\* endpoint for one entity.
WritesFor(ep, kind, id) ==
    {i \in 1..Len(sent) : /\ sent[i].ep = ep
                          /\ sent[i].entityTypeId = bindings_entities_mapping[kind]
                          /\ sent[i].entityId = id}

AddEp == "crm.activity.binding.add"
DeleteEp == "crm.activity.binding.delete"

\* C16: a second run of the engine on the same record, against the bindings
\* the first run left, leaves the bindings as they are and sends no binding
\* add or delete request.
C16_Idempotent ==
    probe.runs >= 2 => probe.bindings = probe.before /\ WriteCount(sent) = 0

\* C16 as the engine behaves: a second run leaves the bindings as they are
\* and sends no add request; it repeats the delete request for every known
\* entity of a kind under NONE and for every known entity outside the
\* queue's set of a kind under FILTERED, none of which is bound any more.
SecondRunKeepsBindings ==
    probe.runs >= 2 =>
        /\ probe.bindings = probe.before
        /\ \A i \in 1..Len(sent) : sent[i].ep # AddEp
        /\ \A kind \in {"lead", "deal"} :
              \A j \in 1..Len(KnownEntities(kind)) :
                  /\ WritesFor(DeleteEp, kind, KnownEntities(kind)[j].ID) # {}
                        <=> \/ binding_call[kind] = "NONE"
                            \/ /\ binding_call[kind] = "FILTERED"
                               /\ ~InQueueSet(kind, KnownEntities(kind)[j])
                  /\ WritesFor(DeleteEp, kind, KnownEntities(kind)[j].ID) # {}
                        => Binding(kind, KnownEntities(kind)[j].ID) \notin probe.before

\* A second run that repeats a delete and one that has nothing to add.
SecondRunCase ==
    /\ probe.runs = 2
    /\ binding_call["lead"] = "FILTERED"
    /\ binding_call["deal"] = "ALL"
    /\ Len(KnownEntities("deal")) > 0
    /\ WriteCount(sent) = 1

\* C17: after a run, under mode ALL every known entity of the kind is bound
\* to the activity; an add request goes out only for a known entity that had
\* no binding, at most once per entity, and no delete request goes out.
C17_BindAll ==
    probe.runs >= 1 =>
        \A kind \in {"lead", "deal"} :
            binding_call[kind] = "ALL" =>
                /\ \A id \in KnownIds(kind) :
                      /\ Binding(kind, id) \in probe.bindings
                      /\ Cardinality(WritesFor(AddEp, kind, id)) =
                            (IF Binding(kind, id) \in probe.before THEN 0 ELSE 1)
                      /\ WritesFor(DeleteEp, kind, id) = {}
                /\ \A i \in 1..Len(sent) :
                      (sent[i].ep \in BindingWriteEps
                       /\ sent[i].entityTypeId = bindings_entities_mapping[kind])
                      => sent[i].entityId \in KnownIds(kind)

\* A run under ALL with a lead that was bound and a lead that was not.
BindAllCase ==
    /\ probe.runs = 1
    /\ binding_call["lead"] = "ALL"
    /\ \E id \in KnownIds("lead") : Binding("lead", id) \in probe.before
    /\ \E id \in KnownIds("lead") : Binding("lead", id) \notin probe.before

\* C18: after a run, under mode FILTERED a known entity is bound exactly
\* when its target value lies in the queue's set: a matching entity that was
\* bound gets no request, a matching entity that was not bound gets one add,
\* an entity that does not match gets a delete and no add.
C18_BindFiltered ==
    probe.runs >= 1 =>
        \A kind \in {"lead", "deal"} :
            binding_call[kind] = "FILTERED" =>
                \A i \in 1..Len(KnownEntities(kind)) :
                    /\ Binding(kind, KnownEntities(kind)[i].ID) \in probe.bindings
                          <=> InQueueSet(kind, KnownEntities(kind)[i])
                    /\ Cardinality(WritesFor(AddEp, kind, KnownEntities(kind)[i].ID)) =
                          (IF /\ InQueueSet(kind, KnownEntities(kind)[i])
                              /\ Binding(kind, KnownEntities(kind)[i].ID) \notin probe.before
                           THEN 1 ELSE 0)
                    /\ WritesFor(DeleteEp, kind, KnownEntities(kind)[i].ID) # {}
                          <=> ~InQueueSet(kind, KnownEntities(kind)[i])

\* A run under FILTERED over a matching deal that was bound, a matching
\* lead that was not, and a lead outside the set that was bound.
BindFilteredCase ==
    /\ probe.runs = 1
    /\ binding_call["lead"] = "FILTERED"
    /\ binding_call["deal"] = "FILTERED"
    /\ \E i \in 1..Len(KnownEntities("lead")) :
          /\ ~InQueueSet("lead", KnownEntities("lead")[i])
          /\ Binding("lead", KnownEntities("lead")[i].ID) \in probe.before
    /\ \E i \in 1..Len(KnownEntities("lead")) :
          /\ InQueueSet("lead", KnownEntities("lead")[i])
          /\ Binding("lead", KnownEntities("lead")[i].ID) \notin probe.before
    /\ \E i \in 1..Len(KnownEntities("deal")) :
          /\ InQueueSet("deal", KnownEntities("deal")[i])
          /\ Binding("deal", KnownEntities("deal")[i].ID) \in probe.before

\* The caller had no entity of any kind in the CRM.
UnknownCaller == DOMAIN BindingRecord.caller_b24_entities = {}

NewLeadBinding == Binding("lead", Val(BindingRecord.b24_new_lead_id))

\* C19: after a run on a call for which a lead was created, a stored lead
\* list has that lead as its first element and nowhere else, the lead was
\* evaluated with the queue's first lead target id, under FILTERED and ALL
\* it is bound, and for an unknown caller the run bound that lead and
\* changed nothing else.
C19_NewLeadFirst ==
    (probe.runs >= 1 /\ ~IsNone(BindingRecord.b24_new_lead_id)) =>
        /\ KnownEntities("lead")[1].ID = Val(BindingRecord.b24_new_lead_id)
        /\ KnownEntities("lead")[1].uf =
              Some(queue_b24_lead_target[Val(BindingRecord.queue)][1])
        /\ \A i \in 2..Len(KnownEntities("lead")) :
              KnownEntities("lead")[i].ID # Val(BindingRecord.b24_new_lead_id)
        /\ binding_call["lead"] \in {"FILTERED", "ALL"} =>
              /\ NewLeadBinding \in probe.bindings
              /\ UnknownCaller => probe.bindings = probe.before \cup {NewLeadBinding}

\* A second run with a new lead at the head of a stored lead list, and a
\* run for an unknown caller whose activity had no binding.
NewLeadFirstCase ==
    /\ probe.runs = 2
    /\ ~IsNone(BindingRecord.b24_new_lead_id)
    /\ "lead" \in DOMAIN BindingRecord.caller_b24_entities
    /\ Len(BindingRecord.caller_b24_entities["lead"]) = 2
    /\ binding_call["lead"] = "FILTERED"
    /\ NewLeadBinding \in probe.bindings

NewLeadOnlyCase ==
    /\ probe.runs = 1
    /\ ~IsNone(BindingRecord.b24_new_lead_id)
    /\ UnknownCaller
    /\ binding_call["lead"] = "FILTERED"
    /\ probe.before = {}
    /\ probe.bindings = {NewLeadBinding}

---------------------------------------------------------------------------
\* The bindings of the activity after finalization (Spec).

\* The entities of a kind the binding policy is about: the known ones and
\* the lead created for the call.
PolicyIds(ci, kind) ==
    (IF kind \in DOMAIN ci.caller_b24_entities
     THEN {ci.caller_b24_entities[kind][i].ID : i \in 1..Len(ci.caller_b24_entities[kind])}
     ELSE {})
    \cup (IF kind = "lead" /\ ~IsNone(ci.b24_new_lead_id)
          THEN {Val(ci.b24_new_lead_id)} ELSE {})

\* Those of them the queue's set accepts; the new lead is accepted.
PolicyMatching(ci, kind) ==
    (IF kind \in DOMAIN ci.caller_b24_entities
     THEN {ci.caller_b24_entities[kind][i].ID :
              i \in {j \in 1..Len(ci.caller_b24_entities[kind]) :
                        \E n \in 1..Len(IF kind = "lead"
                                        THEN queue_b24_lead_target[Val(ci.queue)]
                                        ELSE queue_b24_deal_categories[Val(ci.queue)]) :
                            (IF kind = "lead"
                             THEN queue_b24_lead_target[Val(ci.queue)]
                             ELSE queue_b24_deal_categories[Val(ci.queue)])[n]
                                = Val(ci.caller_b24_entities[kind][j].uf)}}
     ELSE {})
    \cup (IF kind = "lead" /\ ~IsNone(ci.b24_new_lead_id)
          THEN {Val(ci.b24_new_lead_id)} ELSE {})

\* The bindings the policy of a kind makes of bindings b.
PolicyKind(ci, kind, b) ==
    CASE binding_call[kind] = "ALL" ->
           b \cup {Binding(kind, id) : id \in PolicyIds(ci, kind)}
      [] binding_call[kind] = "FILTERED" ->
           (b \ {Binding(kind, id) : id \in PolicyIds(ci, kind)})
           \cup {Binding(kind, id) : id \in PolicyMatching(ci, kind)}
      [] binding_call[kind] = "NONE" ->
           b \ {Binding(kind, id) : id \in PolicyIds(ci, kind)}
      [] OTHER -> b

PolicyBindings(ci, b) == PolicyKind(ci, "deal", PolicyKind(ci, "lead", b))

ListEp == "crm.activity.binding.list"

\* The bindings the CRM reported to the last callback; an activity that was
\* not created or not listed has none.
ReportedBindings ==
    IF \E i \in Requests(ListEp) : ~IsNone(sent[i].result)
    THEN Val(sent[CHOOSE i \in Requests(ListEp) : ~IsNone(sent[i].result)].result)
    ELSE {}

\* The bindings of the activity after the requests of the last callback.
ActivityBindings ==
    Applied(SelectSeq(sent, LAMBDA r : r.res = "ok"), ReportedBindings)

\* C15: after the Hangup of a registered call whose requests the CRM all
\* answered, the bindings of the activity are those the binding policy
\* makes of the record's known entities and new lead, whatever DialBegin
\* and AgentConnect events came before.
C15_BindingsAfterFinalization ==
    (LastHangup /\ HasCallId(LastRecord) /\ AllAnswered) =>
        ActivityBindings = PolicyBindings(LastRecord, ReportedBindings)

\* The same once the engine has run: the CRM listed the bindings.
BindingsWhenListed ==
    (LastHangup /\ HasCallId(LastRecord) /\ AllAnswered
     /\ \E i \in Requests(ListEp) : ~IsNone(sent[i].result)) =>
        ActivityBindings = PolicyBindings(LastRecord, ReportedBindings)

---------------------------------------------------------------------------
\* The contact selected at enrichment (SpecContacts).

PopulatedFields(contact) ==
    Cardinality({a \in {"NAME", "LAST_NAME", "SECOND_NAME"} : contact[a] # ""})

\* C20: of the candidates the lookup returned, the selected one has the
\* maximum number of populated fields among NAME, LAST_NAME, SECOND_NAME and
\* is the first returned with that number.
C20_BestContact ==
    (probe.done /\ Len(probe.contacts) > 0) =>
        \E i \in 1..Len(probe.contacts) :
            /\ probe.best = Some(probe.contacts[i])
            /\ \A j \in 1..Len(probe.contacts) :
                  PopulatedFields(probe.contacts[j]) <= PopulatedFields(probe.contacts[i])
            /\ \A j \in 1..(i - 1) :
                  PopulatedFields(probe.contacts[j]) < PopulatedFields(probe.contacts[i])

\* Three candidates, the second and third tie above the first, the second
\* was selected.
BestContactCase ==
    /\ probe.done
    /\ Len(probe.contacts) = 3
    /\ PopulatedFields(probe.contacts[1]) = 1
    /\ PopulatedFields(probe.contacts[2]) = 2
    /\ PopulatedFields(probe.contacts[3]) = 2
    /\ probe.best = Some(probe.contacts[2])

---------------------------------------------------------------------------
\* Enrichment (SpecEnrich).

LastNewchannel == last.name = "Newchannel" /\ last.routed

\* The record of the call last announced.
Announced == call_infos[last.Uniqueid]

\* C21: after the Newchannel of a call no lead stored for the caller has the
\* status CONVERTED or JUNK, whatever leads the CRM returned; when no contact
\* id was found, no deal list was requested and no deal is stored.
C21_Enrichment ==
    LastNewchannel =>
        /\ "lead" \in DOMAIN Announced.caller_b24_entities =>
              \A i \in 1..Len(Announced.caller_b24_entities["lead"]) :
                  Announced.caller_b24_entities["lead"][i].STATUS_ID
                      \notin {"CONVERTED", "JUNK"}
        /\ IsNone(Announced.caller_b24_contact_id) =>
              /\ "deal" \notin DOMAIN Announced.caller_b24_entities
              /\ \A i \in 1..Len(sent) :
                    sent[i].ep = "crm.list" => sent[i].kind # "deal"

\* The CRM returned a junk lead after a new one and had a deal for the
\* number but no contact: the new lead alone is stored.
EnrichmentCase ==
    /\ LastNewchannel
    /\ Val(probe).contacts = <<>>
    /\ Val(probe).found["deal"] # <<>>
    /\ Len(Val(probe).found["lead"]) = 2
    /\ Val(probe).found["lead"][1].STATUS_ID = "NEW"
    /\ Val(probe).found["lead"][2].STATUS_ID = "JUNK"
    /\ DOMAIN Announced.caller_b24_entities = {"lead"}
    /\ Len(Announced.caller_b24_entities["lead"]) = 1

---------------------------------------------------------------------------
\* Registration on QueueCallerJoin (SpecRegister).

LastJoin == last.name = "QueueCallerJoin" /\ last.routed

\* The record before and after the last QueueCallerJoin, and what the CRM
\* did during it.
JoinBefore == Val(probe).before
JoinAfter == call_infos["A"]
JoinCrm == Val(probe).o

\* The queue the call entered.
JoinQueue == Val(JoinAfter.queue)

\* The first target id of a queue in the queue-to-target-ids map.
FirstTarget(q) == queue_b24_lead_target[q][1]

\* The deal categories configured for a queue.
CategoriesOf(q) ==
    IF q \in DOMAIN queue_b24_deal_categories
    THEN {queue_b24_deal_categories[q][i] : i \in 1..Len(queue_b24_deal_categories[q])}
    ELSE {}

KnownLeadOnTarget ==
    /\ "lead" \in DOMAIN JoinBefore.caller_b24_entities
    /\ \E i \in 1..Len(JoinBefore.caller_b24_entities["lead"]) :
          JoinBefore.caller_b24_entities["lead"][i].uf = Some(FirstTarget(JoinQueue))

KnownDealInCategories ==
    /\ "deal" \in DOMAIN JoinBefore.caller_b24_entities
    /\ \E i \in 1..Len(JoinBefore.caller_b24_entities["deal"]) :
          Val(JoinBefore.caller_b24_entities["deal"][i].uf) \in CategoriesOf(JoinQueue)

AddRequests == Requests("crm.lead.add")

\* The registration succeeded and the CRM created no lead itself.
RegisteredWithoutLead ==
    LastJoin /\ JoinCrm.register = "ok" /\ IsNone(JoinCrm.created)

\* C22: on a QueueCallerJoin whose registration succeeded without a lead of
\* the CRM's own, a lead is requested exactly when the caller has neither a
\* lead on the queue's target nor a deal in the queue's categories;
\* b24_new_lead_id becomes the id of the lead when the CRM created it and is
\* left as it was otherwise.
C22_OwnLead ==
    RegisteredWithoutLead =>
        /\ AddRequests # {} <=> (~KnownLeadOnTarget /\ ~KnownDealInCategories)
        /\ IF \E i \in AddRequests : sent[i].res = "ok"
           THEN JoinAfter.b24_new_lead_id = Some(JoinCrm.new_lead)
           ELSE JoinAfter.b24_new_lead_id = JoinBefore.b24_new_lead_id

\* The same for a queue that has deal categories.
OwnLeadInConfiguredQueue ==
    (RegisteredWithoutLead /\ JoinQueue \in DOMAIN queue_b24_deal_categories) =>
        /\ AddRequests # {} <=> (~KnownLeadOnTarget /\ ~KnownDealInCategories)
        /\ IF \E i \in AddRequests : sent[i].res = "ok"
           THEN JoinAfter.b24_new_lead_id = Some(JoinCrm.new_lead)
           ELSE JoinAfter.b24_new_lead_id = JoinBefore.b24_new_lead_id

\* The crm.lead.update requests of the last callback that the CRM carried
\* out.
TitleUpdates == {i \in Requests("crm.lead.update") : sent[i].res = "ok"}

\* The lead was created by the last QueueCallerJoin.
LeadCreated == LastJoin /\ \E i \in AddRequests : sent[i].res = "ok"

\* The title the CRM holds for the created lead after the callback: that of
\* the last update carried out, else that of the add request.
CreatedLeadTitle ==
    IF TitleUpdates # {}
    THEN sent[CHOOSE i \in TitleUpdates : \A j \in TitleUpdates : j <= i].TITLE
    ELSE sent[CHOOSE i \in AddRequests : TRUE].TITLE

\* C23: after the QueueCallerJoin that created a lead, the title of the lead
\* in the CRM has the three parts queue name, caller's full name (the number
\* of an unknown caller), direction label.
C23_CreatedLeadTitle ==
    LeadCreated =>
        /\ Len(CreatedLeadTitle) = 3
        /\ CreatedLeadTitle[1] = queue_names[JoinQueue]
        /\ CreatedLeadTitle[2] = Val(JoinAfter.caller_b24_contact_fullname)
        /\ CreatedLeadTitle[3] = "Incoming call"

\* The same for a caller who had entities in the CRM: the title of the add
\* request stays.
CreatedLeadTitleOfKnownCaller ==
    (LeadCreated /\ DOMAIN JoinBefore.caller_b24_entities # {}) =>
        /\ Len(CreatedLeadTitle) = 3
        /\ CreatedLeadTitle[1] = queue_names[JoinQueue]
        /\ CreatedLeadTitle[2] = Val(JoinAfter.caller_b24_contact_fullname)
        /\ CreatedLeadTitle[3] = "Incoming call"

\* The requests of the last callback that write a lead.
LeadWrites == Requests("crm.lead.add") \cup Requests("crm.lead.update")

\* C24: the target value a QueueCallerJoin writes to a lead it creates or
\* retitles is the first target id of the queue in the queue-to-target-ids
\* map, the value the binding engine takes the new lead to have.
C24_TargetWritten ==
    LastJoin => \A i \in LeadWrites : sent[i].target = Some(FirstTarget(JoinQueue))

\* The same where the id of the queue's label among the target ids is the
\* queue's first target.
TargetWrittenWhenAgreeing ==
    (LastJoin
     /\ find_id_by_value_in_list(queue_names[JoinQueue], lead_target_ids)
           = Some(FirstTarget(JoinQueue)))
        => \A i \in LeadWrites : sent[i].target = Some(FirstTarget(JoinQueue))

\* The record holds the registration the CRM returned during the last
\* QueueCallerJoin.
RegistrationStored ==
    /\ HasCallId(JoinAfter)
    /\ JoinAfter.b24_call_id["CALL_ID"] = JoinCrm.call_id
    /\ "CRM_CREATED_ENTITIES" \in DOMAIN JoinAfter.b24_call_id

\* C28: after a QueueCallerJoin whose register request returned a CALL_ID,
\* the record holds that CALL_ID and the CRM_CREATED_ENTITIES returned with
\* it, whatever became of the later steps of the registration.
C28_RegistrationStored ==
    (LastJoin /\ JoinCrm.register = "ok") => RegistrationStored

\* The same for a queue that has deal categories.
RegistrationStoredInConfiguredQueue ==
    (LastJoin /\ JoinCrm.register = "ok"
     /\ JoinQueue \in DOMAIN queue_b24_deal_categories) => RegistrationStored

---------------------------------------------------------------------------
\* Events of calls that are not live (SpecStray).

\* The event of the callback that leads to the next state.
NextEvent == Val(probe')

\* C25: the call map gains an entry only by a Newchannel whose Exten is
\* allowed; any other event whose Linkedid has no CallInfo in the map leaves
\* the map and the finalized record as they are and sends nothing to the CRM
\* or the PBX.
C25_StrayEvents ==
    [][/\ DOMAIN call_infos' \ DOMAIN call_infos # {} =>
             (NextEvent.name = "Newchannel" /\ NextEvent.Exten = "0008")
       /\ (~(NextEvent.name = "Newchannel" /\ NextEvent.Exten = "0008")
           /\ NextEvent.Linkedid \notin DOMAIN call_infos) =>
             (call_infos' = call_infos /\ final_info' = final_info /\ sent' = <<>>)]_vars

\* A Hangup under the Linkedid of a call that was finalized before.
StrayHangupCase ==
    /\ last.name = "Hangup"
    /\ ~last.routed
    /\ ~IsNone(final_info)
    /\ Val(final_info).uniqueid = last.Linkedid
    /\ Val(final_info).uniqueid \notin DOMAIN call_infos

---------------------------------------------------------------------------
\* Dial events of a call.

\* The call whose dial attempts are followed, before and after the step.
DialedBefore == call_infos["A"]
DialedAfter == call_infos'["A"]

\* The call has not joined a queue.
BeforeQueueJoin(ci) == IsNone(ci.queue)

\* C26: a DialBegin, a DialEnd or an AgentConnect that arrives for a live
\* call before its QueueJoin is ignored: the call's state, the cache of CRM
\* user ids included, is left as it was and no request is sent to the CRM.
C26_UnacceptedIgnored ==
    [][("A" \in DOMAIN call_infos
          /\ NextEvent.name \in {"DialBegin", "DialEnd", "AgentConnect"}
          /\ BeforeQueueJoin(DialedBefore))
       => (call_infos' = call_infos /\ sent' = <<>>)]_vars

\* The agent's log holds a record made at the time of the step.
RecordedNow(agent_log, agent) ==
    IF agent \in DOMAIN agent_log THEN IntTime(now') \in DOMAIN agent_log[agent] ELSE FALSE

\* The show requests of the step.
ShowRequests == SelectSeq(sent', LAMBDA r : r.ep = ShowEp)

\* The DialBegin of the step does what the state table says of it.
DialBeginAsTabled ==
    IF NextEvent.Uniqueid = NextEvent.Linkedid
    THEN /\ RecordedNow(DialedAfter.used_agents, Val(NextEvent.DestExten))
         /\ ShowRequests = <<>>
    ELSE /\ RecordedNow(DialedAfter.available_agents, Val(NextEvent.DestCallerIDNum))
         /\ Len(ShowRequests) = 1
         /\ ShowRequests[1].USER_ID = CrmUser(Val(NextEvent.DestCallerIDNum))

\* A DialBegin arrives for the live call after its QueueJoin.
DialBeginAccepted ==
    /\ "A" \in DOMAIN call_infos
    /\ NextEvent.name = "DialBegin"
    /\ ~BeforeQueueJoin(DialedBefore)

\* The CRM found the user of the agent where the step looked it up.
UserFound ==
    \A i \in 1..Len(sent') : sent'[i].ep = "user.get" => sent'[i].res = "ok"

\* C29: on the DialBegin of a queued call, a leg whose Uniqueid is its
\* Linkedid gets a used_agents entry under the dialed extension and no
\* popup; any other leg gets an available_agents entry under the agent and
\* exactly one show request for the agent's CRM user.
\* (Checked for agents whose CRM user was found.)
C29_DialBegin ==
    [][(DialBeginAccepted /\ UserFound) => DialBeginAsTabled]_vars

\* The same for a call that holds a CALL_ID, in a step in which every
\* request was answered.
DialBeginWhenAnswered ==
    [][(DialBeginAccepted /\ HasCallId(DialedBefore)
          /\ \A i \in 1..Len(sent') : sent'[i].res = "ok")
       => DialBeginAsTabled]_vars

\* The dial-attempt log of an agent: its records by timestamp.
AttemptsOf(ci, agent) ==
    IF agent \in DOMAIN ci.available_agents THEN ci.available_agents[agent]
    ELSE EmptyDict

\* The step adds one record to the agent's log and keeps every earlier one
\* as it was.
Appended(old, new) ==
    /\ Cardinality(DOMAIN new) = Cardinality(DOMAIN old) + 1
    /\ \A ts \in DOMAIN old :
          IF ts \in DOMAIN new THEN new[ts] = old[ts] ELSE FALSE

\* The step handles a DialEnd, or a DialBegin of another leg that opened the
\* agent's call window, for the live call.
DialAttemptLogged ==
    /\ "A" \in DOMAIN call_infos
    /\ \/ NextEvent.name = "DialEnd"
       \/ /\ NextEvent.name = "DialBegin"
          /\ NextEvent.Uniqueid # NextEvent.Linkedid
          /\ \E i \in 1..Len(sent') : sent'[i].ep = ShowEp /\ sent'[i].res = "ok"

\* C30: the dial-attempt log of an agent is append-only: every DialBegin and
\* every DialEnd handled for the agent adds a record of its own and leaves
\* the agent's earlier records as they were, whatever the times of the
\* events, two events within one second included.
C30_AppendOnly ==
    [][DialAttemptLogged =>
         Appended(AttemptsOf(DialedBefore, Val(NextEvent.DestCallerIDNum)),
                  AttemptsOf(DialedAfter, Val(NextEvent.DestCallerIDNum)))]_vars

\* The same for an event handled in a second in which the agent's log has
\* no record yet.
AppendsInNewSecond ==
    [][(DialAttemptLogged
          /\ IntTime(now') \notin
                DOMAIN AttemptsOf(DialedBefore, Val(NextEvent.DestCallerIDNum)))
       => Appended(AttemptsOf(DialedBefore, Val(NextEvent.DestCallerIDNum)),
                   AttemptsOf(DialedAfter, Val(NextEvent.DestCallerIDNum)))]_vars

---------------------------------------------------------------------------
\* The PBX link.

\* C27: when the PBX link has dropped the daemon connects again, so that
\* events are handled again.
C27_Reconnects == (probe = "exited") ~> (probe = "up")

---------------------------------------------------------------------------
\* The engine on entities without the target field.

\* The known entities of a kind that lack the target field.
Fieldless(kind) ==
    {i \in 1..Len(KnownEntities(kind)) : IsNone(KnownEntities(kind)[i].uf)}

\* The known entities of a kind that hold the target field.
Fielded(kind) == (1..Len(KnownEntities(kind))) \ Fieldless(kind)

\* C31: under FILTERED a known entity without the target field counts as
\* outside the filter: the run does not fail, the entity is not bound after
\* it, and the entities that hold the field are bound exactly when their
\* value lies in the queue's set.
C31_MissingFieldUnbinds ==
    probe.runs >= 1 =>
        \A kind \in {"lead", "deal"} :
            (binding_call[kind] = "FILTERED" /\ Fieldless(kind) # {}) =>
                /\ ~probe.exc
                /\ \A i \in Fieldless(kind) :
                      Binding(kind, KnownEntities(kind)[i].ID) \notin probe.bindings
                /\ \A i \in Fielded(kind) :
                      Binding(kind, KnownEntities(kind)[i].ID) \in probe.bindings
                         <=> InQueueSet(kind, KnownEntities(kind)[i])

\* What the engine does instead: the run ends with the KeyError of the
\* first entity without the field, which gets no request.
MissingFieldStopsRun ==
    probe.runs >= 1 =>
        \A kind \in {"lead", "deal"} :
            (binding_call[kind] = "FILTERED" /\ Fieldless(kind) # {}) =>
                /\ probe.exc
                /\ \A i \in Fieldless(kind) :
                      /\ WritesFor(AddEp, kind, KnownEntities(kind)[i].ID) = {}
                      /\ WritesFor(DeleteEp, kind, KnownEntities(kind)[i].ID) = {}

---------------------------------------------------------------------------
\* The caller's name on the channel.

\* The Setvar actions of the last callback.
Setvars == SelectSeq(sent, LAMBDA r : r.ep = "Setvar")

\* The caller's full name: that of the contact selected among those the CRM
\* returned, or the phone number.
FullNameOf(contacts) ==
    IF contacts # <<>> THEN format_contact_fullname(Val(find_contact_by_phone(contacts)))
    ELSE <<Val(Announced.caller_id_num)>>

\* The kinds with at least one stored entity, with their counts, in the
\* order of the entity types.
StoredKinds ==
    SelectSeq([k \in 1..Len(entity_types) |->
                 [kind |-> entity_types[k],
                  n |-> IF entity_types[k] \in DOMAIN Announced.caller_b24_entities
                        THEN Len(Announced.caller_b24_entities[entity_types[k]]) ELSE 0]],
              LAMBDA c : c.n > 0)

\* C32: the Newchannel of a call sends exactly one Setvar for its channel,
\* whose value is the caller's full name (the selected contact's, else the
\* phone number) followed by the kinds that have a known entity with their
\* counts; with a contact the value starts with the contact's full name
\* whether or not there is any entity.
C32_CallerIdName ==
    LastNewchannel =>
        /\ Len(Setvars) = 1
        /\ Setvars[1].Channel = Newchannel(last.Uniqueid).Channel
        /\ Setvars[1].Value.name = FullNameOf(Val(probe).contacts)
        /\ Setvars[1].Value.kinds = StoredKinds

\* The same, with the phone number in place of the name when no entity of
\* the caller is stored.
CallerIdNameAsSent ==
    LastNewchannel =>
        /\ Len(Setvars) = 1
        /\ Setvars[1].Channel = Newchannel(last.Uniqueid).Channel
        /\ Setvars[1].Value.name =
              (IF Announced.caller_b24_entities # EmptyDict
               THEN FullNameOf(Val(probe).contacts)
               ELSE <<Val(Announced.caller_id_num)>>)
        /\ Setvars[1].Value.kinds = StoredKinds

---------------------------------------------------------------------------
\* The Hangup of a leg.

\* C33: a Hangup routed to a live call whose Uniqueid is not the call's
\* leaves the call's record as it was, the converted recording included,
\* sends no request, finalizes nothing and leaves the call in the map.
C33_LegHangupIgnored ==
    [][("A" \in DOMAIN call_infos
          /\ NextEvent.name = "Hangup"
          /\ NextEvent.Uniqueid # DialedBefore.uniqueid)
       => (call_infos' = call_infos /\ sent' = <<>> /\ final_info' = final_info)]_vars

\* The Hangup of a leg was handled for a registered call that has a
\* recording.
LegHangupCase ==
    /\ last.name = "Hangup" /\ last.routed
    /\ last.Uniqueid = "leg"
    /\ "A" \in DOMAIN call_infos
    /\ HasCallId(call_infos["A"])
    /\ ~IsNone(call_infos["A"].call_record_wav)

---------------------------------------------------------------------------
\* The cache of CRM user ids.

\* The user lookups of the step.
UserLookups == SelectSeq(sent', LAMBDA r : r.ep = "user.get")

\* The agent of the DialBegin of the step.
DialedAgent == Val(NextEvent.DestCallerIDNum)

\* C34: a DialBegin of a live call looks the agent's CRM user up exactly
\* when the call's own cache does not hold the agent's number; with the
\* number cached no lookup is sent, a show request carries the cached user
\* id and the cache stays as it is; the records of the other calls, their
\* caches included, are not changed.
C34_UserCache ==
    [][(NextEvent.name = "DialBegin" /\ NextEvent.Linkedid \in DOMAIN call_infos)
       => /\ IF HasNumber(call_infos[NextEvent.Linkedid].internal_b24ids, DialedAgent)
             THEN /\ UserLookups = <<>>
                  /\ \A i \in 1..Len(sent') :
                        sent'[i].ep = ShowEp =>
                           sent'[i].USER_ID =
                              UserIdOf(call_infos[NextEvent.Linkedid].internal_b24ids,
                                       DialedAgent)
                  /\ call_infos'[NextEvent.Linkedid].internal_b24ids =
                        call_infos[NextEvent.Linkedid].internal_b24ids
             ELSE Len(UserLookups) = 1
          /\ \A v \in DOMAIN call_infos \ {NextEvent.Linkedid} :
                call_infos'[v] = call_infos[v]]_vars

\* A DialBegin of call A opened the window from the cache of A while call B
\* holds a cache of its own.
CacheReusedCase ==
    /\ last.name = "DialBegin" /\ last.Linkedid = "A" /\ last.routed
    /\ \E i \in 1..Len(sent) : sent[i].ep = ShowEp
    /\ \A i \in 1..Len(sent) : sent[i].ep # "user.get"
    /\ "B" \in DOMAIN call_infos
    /\ call_infos["B"].internal_b24ids # <<>>

---------------------------------------------------------------------------
\* The timeline of a call.

\* The values a field of the record holds: a list's elements, or the one
\* value of a scalar.
Held(x) == IF IsNone(x) THEN <<>> ELSE <<Val(x)>>

\* The values of a list as they were appended.
Unwrapped(list) == [i \in 1..Len(list) |-> Val(list[i])]

\* C35: the record of a live call holds the values of all TimeRule,
\* TimeGroup and IVRchoose events handled for it, each kind in arrival
\* order.
C35_TimelineAppended ==
    "A" \in DOMAIN call_infos =>
        /\ Held(call_infos["A"].time_rule) = probe.TimeRule
        /\ Held(call_infos["A"].time_group) = probe.TimeGroup
        /\ Unwrapped(call_infos["A"].interactive_menu) = probe.IVRchoose

\* What the record holds: every menu choice in arrival order, and the last
\* time rule and the last time group only.
TimelineAsStored ==
    "A" \in DOMAIN call_infos =>
        /\ Unwrapped(call_infos["A"].interactive_menu) = probe.IVRchoose
        /\ Held(call_infos["A"].time_rule) =
              (IF probe.TimeRule = <<>> THEN <<>>
               ELSE <<probe.TimeRule[Len(probe.TimeRule)]>>)
        /\ Held(call_infos["A"].time_group) =
              (IF probe.TimeGroup = <<>> THEN <<>>
               ELSE <<probe.TimeGroup[Len(probe.TimeGroup)]>>)

---------------------------------------------------------------------------
\* A Newchannel repeated for a live call.

\* The step handles a Newchannel for a Uniqueid that has a record.
RepeatedNewchannel ==
    /\ last'.name = "Newchannel" /\ last'.routed
    /\ last'.Uniqueid \in DOMAIN call_infos

\* The fields a call accumulates after its Newchannel are as before the
\* step.
AccumulatedKept(before, after) ==
    /\ after.queue = before.queue
    /\ after.queue_name = before.queue_name
    /\ after.b24_call_id = before.b24_call_id
    /\ after.b24_new_lead_id = before.b24_new_lead_id
    /\ after.used_agents = before.used_agents
    /\ after.available_agents = before.available_agents
    /\ after.internal_b24ids = before.internal_b24ids
    /\ after.accepted_by_agent = before.accepted_by_agent
    /\ after.answer_start_time = before.answer_start_time
    /\ after.call_record_wav = before.call_record_wav

\* C36: a Newchannel for a Uniqueid that has a live record adds no record
\* and replaces none: the record keeps its start time and the fields
\* accumulated so far.
C36_RepeatedNewchannel ==
    [][RepeatedNewchannel =>
         /\ DOMAIN call_infos' = DOMAIN call_infos
         /\ call_infos'[last'.Uniqueid].start_time = call_infos[last'.Uniqueid].start_time
         /\ AccumulatedKept(call_infos[last'.Uniqueid], call_infos'[last'.Uniqueid])]_vars

\* The same without the start time, which the repeated Newchannel sets
\* anew.
RepeatedNewchannelKeepsRest ==
    [][RepeatedNewchannel =>
         /\ DOMAIN call_infos' = DOMAIN call_infos
         /\ call_infos'[last'.Uniqueid].start_time = Some(now')
         /\ AccumulatedKept(call_infos[last'.Uniqueid], call_infos'[last'.Uniqueid])]_vars

---------------------------------------------------------------------------
\* The key of a record in the map.

\* C37: every record in the map is stored under the Linkedid of the
\* Newchannel that created it, the id by which the later events of its
\* channel are routed, so that the channel's Hangup finds it.
C37_StoredUnderLinkedid ==
    \A u \in DOMAIN call_infos : probe[u] = Some(u)

\* What the code does: the record is stored under the Uniqueid of its
\* Newchannel, and one whose Linkedid is another id stays in the map,
\* through the Hangup of its own channel too.
StoredUnderUniqueid ==
    [][\A u \in DOMAIN call_infos :
          /\ call_infos[u].uniqueid = u
          /\ probe[u] # Some(u) => u \in DOMAIN call_infos']_vars

\* The Hangup of channel B was handled and the record of B is in the map.
OrphanCase ==
    /\ last.name = "Hangup" /\ last.Uniqueid = "B"
    /\ "B" \in DOMAIN call_infos

---------------------------------------------------------------------------
\* Requests that name the activity.

\* C38: no binding add or delete request and no activity update is sent
\* without an activity id.
C38_WritesNameActivity ==
    \A i \in 1..Len(sent) :
        /\ sent[i].ep \in BindingWriteEps => ~IsNone(sent[i].activityId)
        /\ sent[i].ep = "crm.activity.update" => ~IsNone(sent[i].id)

\* The requests without an activity id are those of a finalization whose
\* finish request gave no result.
WritesWithoutActivityAfterFailedFinish ==
    (\E i \in 1..Len(sent) :
        \/ sent[i].ep \in BindingWriteEps /\ IsNone(sent[i].activityId)
        \/ sent[i].ep = "crm.activity.update" /\ IsNone(sent[i].id))
    => \E j \in 1..Len(sent) :
          sent[j].ep = "telephony.externalcall.finish" /\ sent[j].res = "none"

---------------------------------------------------------------------------
\* Requests that name the registered call.

CallWindowEps == {ShowEp, HideEp, FinishEp}

RegisterEp == "telephony.externalcall.register"

\* The callback that ran stored a CALL_ID in the record of call v, or
\* replaced the one it held.
NewCallId(v) ==
    /\ v \in DOMAIN call_infos' /\ HasCallId(call_infos'[v])
    /\ \/ v \notin DOMAIN call_infos
       \/ ~HasCallId(call_infos[v])
       \/ call_infos'[v].b24_call_id["CALL_ID"] # call_infos[v].b24_call_id["CALL_ID"]

\* C39: a show, hide or finish request is sent only for a call whose record
\* holds a CALL_ID and carries that CALL_ID, and a record comes to hold a
\* CALL_ID only in a callback of its call whose register request succeeded,
\* the CALL_ID being the one the CRM returned.
C39_AfterRegistration ==
    [][/\ \A i \in 1..Len(sent') :
             sent'[i].ep \in CallWindowEps =>
                 /\ last'.Linkedid \in DOMAIN call_infos
                 /\ HasCallId(call_infos[last'.Linkedid])
                 /\ sent'[i].CALL_ID = call_infos[last'.Linkedid].b24_call_id["CALL_ID"]
       /\ \A v \in Calls :
             NewCallId(v) =>
                 /\ v = last'.Linkedid
                 /\ call_infos'[v].b24_call_id["CALL_ID"] = FreshCallId(call_infos)
                 /\ \E j \in 1..Len(sent') :
                       sent'[j].ep = RegisterEp /\ sent'[j].res = "ok"]_vars

\* A show, hide or finish request was sent for a registered call.
RegisteredRequestCase ==
    /\ last.name \in {"DialBegin", "AgentConnect"}
    /\ last.Linkedid \in DOMAIN call_infos
    /\ HasCallId(call_infos[last.Linkedid])
    /\ \E i \in 1..Len(sent) :
          /\ sent[i].ep \in CallWindowEps
          /\ sent[i].CALL_ID = call_infos[last.Linkedid].b24_call_id["CALL_ID"]

---------------------------------------------------------------------------
\* Two calls whose callbacks may fail: a request to the CRM raises or gives
\* no result, a queue has no deal categories in the configuration, a Hangup
\* comes for a call that was never registered.  probe holds the event of
\* the last callback, whether something failed in it, and the calls in one
\* of whose callbacks something failed.

MaxContainEvents == 5

ContainEvents ==
    UNION {{Newchannel(u), QueueCallerJoin(u), QueueCallerJoinTo(u, "703"),
            DialBegin(u, "201"), Hangup(u)} : u \in Calls}

\* The failures followed are those of the register, add, user, show, hide
\* and finish requests; the CRM's other answers are the quiet ones.
ContainBehaviours(infos, e) ==
    {o \in Behaviours(infos, e) :
        \A f \in {"activity", "bound", "converts", "list", "attach"} : o[f] = Quiet[f]}

\* Something failed in the callback of event e that left the map infos and
\* the requests log: an exception reached the except block of the hangup
\* handler, a request raised or gave no result, or the registration raised
\* after its request succeeded (the queue has no deal categories) and left no
\* CALL_ID.
FailedIn(infos, log, exc, e) ==
    \/ exc
    \/ /\ e.name # "Newchannel"
       /\ \E i \in 1..Len(log) : log[i].res \in {"none", "raise"}
    \/ /\ e.name = "QueueCallerJoin"
       /\ e.Linkedid \in DOMAIN infos
       /\ ~HasCallId(infos[e.Linkedid])
       /\ \E i \in 1..Len(log) : log[i].ep = RegisterEp /\ log[i].res = "ok"

InitContain ==
    /\ InitDaemon
    /\ binding_call = binding_call_ini
    /\ probe = [e |-> None, fault |-> FALSE, failed |-> {}]

DeliverContain ==
    /\ cur = None /\ pending = <<>>
    /\ arrived < MaxContainEvents
    /\ arrived' = arrived + 1
    /\ \E e \in ContainEvents :
          /\ Fresh(e)
          /\ e.name = "Newchannel" => e.Uniqueid \notin DOMAIN call_infos
          /\ \E o \in ContainBehaviours(call_infos, e) : Handle(e, arrived + 1, now, o)
          /\ probe' = [e |-> Some(e),
                       fault |-> FailedIn(call_infos', sent', last'.exc, e),
                       failed |-> IF FailedIn(call_infos', sent', last'.exc, e)
                                  THEN probe.failed \cup {e.Linkedid}
                                  ELSE probe.failed]
    /\ UNCHANGED <<pending, cur, binding_call>>

NextContain == DeliverContain

SpecContain == InitContain /\ [][NextContain]_vars

\* The record of call v is as it was before the callback.
RecordKept(v) ==
    /\ v \in DOMAIN call_infos <=> v \in DOMAIN call_infos'
    /\ v \in DOMAIN call_infos => call_infos'[v] = call_infos[v]

\* The event of the callback that ran.
ContainedEvent == Val(probe'.e)

\* C40: a callback in which something failed returns with the records of
\* the other calls unchanged, and after such a callback every enabled event
\* of a live call is still routed to its handler, which acts on the record
\* of that call only.
C40_FailureContained ==
    [][/\ cur' = None /\ arrived' = arrived + 1
       /\ probe'.fault => \A v \in Calls \ {ContainedEvent.Linkedid} : RecordKept(v)
       /\ (/\ probe.failed # {}
           /\ ContainedEvent.name \in event_handling \ {"Newchannel"}
           /\ ContainedEvent.Linkedid \in DOMAIN call_infos) =>
              /\ last'.routed
              /\ \A v \in Calls \ {ContainedEvent.Linkedid} : RecordKept(v)]_vars

\* A callback of call A failed, and the Hangup of call B that came later
\* finalized B and took its record off the map while that of A stayed.
ContainedCase ==
    /\ probe.failed = {"A"}
    /\ last.name = "Hangup" /\ last.Linkedid = "B" /\ last.routed /\ ~last.exc
    /\ "B" \notin DOMAIN call_infos
    /\ "A" \in DOMAIN call_infos
    /\ ~IsNone(final_info) /\ Val(final_info).uniqueid = "B"

====
